---- MODULE Spec2Model ----
(***************************************************************************)
(* bacup: the scheduler loop of the daemon (src/bin/server.rs) and the     *)
(* backup pipeline that every fire of a job runs (Backup::schedule in      *)
(* src/backup.rs), with the source adapters' dump/list of                  *)
(* src/services/{folders,postgresql,docker}.rs and the Dump handle of      *)
(* src/services/service.rs.                                                *)
(*                                                                         *)
(* Time is a discrete clock; one unit is one firing granule of the cron    *)
(* schedule.  The main thread polls the scheduler at least once per unit   *)
(* (it sleeps 500 ms) unless it is inside a job closure: the closure is    *)
(* called synchronously by the scheduler's tick and blocks on every        *)
(* adapter call (executor::block_on).                                      *)
(***************************************************************************)
EXTENDS Integers, Sequences, FiniteSets, TLC

\* ------------------------------------------------------------------ bounds
MaxTime == 3
NumBackups == 2

Backups == 1..NumBackups

\* ------------------------------------------------------------------- paths
\* A path is the sequence of its components (Path::components); components
\* are numbers so that the order of Path::cmp is the lexicographic order.
Parent(p) == SubSeq(p, 1, Len(p) - 1)

FileName(p) == p[Len(p)]

StartsWith(p, base) ==
    /\ Len(base) <= Len(p)
    /\ SubSeq(p, 1, Len(base)) = base

StripPrefix(p, base) == SubSeq(p, Len(base) + 1, Len(p))

Join(p, q) == p \o q

\* Path::cmp: component-wise, a proper prefix is smaller.
PathLess(a, b) ==
    \/ /\ Len(a) < Len(b)
       /\ SubSeq(b, 1, Len(a)) = a
    \/ \E i \in 1..Len(a) :
          /\ i <= Len(b)
          /\ SubSeq(a, 1, i - 1) = SubSeq(b, 1, i - 1)
          /\ a[i] < b[i]

\* iter().min_by(|a, b| a.cmp(b)) of a non-empty list
MinPath(list) ==
    CHOOSE p \in {list[i] : i \in 1..Len(list)} :
        \A j \in 1..Len(list) : ~PathLess(list[j], p)

\* The local tree the folder sources read: /1 and /2 are directories,
\* /1/3 a sub-directory, the rest regular files.
LocalDirs == {<<1>>, <<1, 3>>, <<2>>}

\* The lists a glob pattern can expand to over that tree (sorted, as glob
\* yields them): no match, one file, one directory, the files of one
\* directory, a recursive expansion, and a pattern spanning two trees.
GlobResults ==
    { <<>>,
      << <<1, 1>> >>,
      << <<1>> >>,
      << <<1, 1>>, <<1, 2>> >>,
      << <<1, 1>>, <<1, 2>>, <<1, 3>>, <<1, 3, 1>> >>,
      << <<1, 1>>, <<2, 1>> >> }

\* current_dir().join("<name>-dump.sql") / join("<name>.dump")
DumpPath(b) == <<9, b>>

\* Backup.remote_path
RemotePrefix(b) == <<7, b>>

\* --------------------------------------------------------- configuration
\* [backup.<name>]: the kind of the source named by what, compress, and
\* keep_last (0 stands for None).
Profiles ==
    { [kind |-> "folder", compress |-> FALSE, keep |-> 0],
      [kind |-> "folder", compress |-> TRUE, keep |-> 0],
      [kind |-> "postgres", compress |-> TRUE, keep |-> 1],
      [kind |-> "docker", compress |-> FALSE, keep |-> 0],
      [kind |-> "docker", compress |-> TRUE, keep |-> 1] }

\* The configurations the daemon is started with: one backup of any
\* profile, the others uncompressed container dumps.
Configs ==
    { f \in [Backups -> Profiles] :
        \E b0 \in Backups : \A b \in Backups \ {b0} :
            f[b] = [kind |-> "docker", compress |-> FALSE, keep |-> 0] }

\* The cron schedule of backup b: it fires at every multiple of Period(b).
Period(b) == b

FiresAt(b, t) == t > 0 /\ t % Period(b) = 0

VARIABLES
    cfg,        \* b -> its profile (fixed at start-up)
    now,        \* the clock
    polled,     \* a scheduler pass completed since the clock last moved
    jobIdx,     \* 0: the main loop sleeps; j: Job::tick of job j is next/in progress
    lastTick,   \* b -> Job.last_tick (-1 stands for None)
    tickNow,    \* b -> the `now` Job::tick read when it started
    crashed,    \* a panic unwound the main thread
    phase,      \* b -> position of the job closure
    live,       \* b -> number of invocations of the closure not yet returned
    calls,      \* the adapter calls of the latest invocation of a closure, in order
    handle,     \* b -> the Dump handle held: "unset" | "none" | "some"
    subproc,    \* b -> how the dump subprocess of this invocation ended
    localFiles, \* b -> local_files
    singleFile, \* b -> single_file
    localPrefix,\* b -> local_prefix
    folderCase, \* b -> the upload_folder branch is still to run
    pending,    \* b -> [path, result] of the compressed-file upload awaiting retention
    disk,       \* the backups whose dump file exists on disk
    remote,     \* b -> the objects on the destination
    credit,     \* b -> fire times that arrived while b was Idle, minus invocations started
    outcome,    \* [b, how]: the latest invocation that ended, and how
    eval        \* a single call or the start-up examined on its own: its input and result

vars ==
    << cfg, now, polled, jobIdx, lastTick, tickNow, crashed, phase, live,
       calls, handle, subproc, localFiles, singleFile, localPrefix,
       folderCase, pending, disk, remote, credit, outcome, eval >>

schedVars == << jobIdx, lastTick, tickNow >>

pipeVars ==
    << calls, handle, subproc, localFiles, singleFile, localPrefix,
       folderCase, pending >>

NoPending == [path |-> <<>>, result |-> "none"]

\* No call is examined on its own: the daemon runs.
NoEval == [op |-> "none"]

\* The daemon right after the backups were scheduled: no tick has run yet
Quiescent ==
    /\ now = 0
    /\ polled = FALSE
    /\ jobIdx = 0
    /\ lastTick = [b \in Backups |-> -1]
    /\ tickNow = [b \in Backups |-> 0]
    /\ crashed = FALSE
    /\ phase = [b \in Backups |-> "Idle"]
    /\ live = [b \in Backups |-> 0]
    /\ calls = <<>>
    /\ handle = [b \in Backups |-> "unset"]
    /\ subproc = [b \in Backups |-> "none"]
    /\ localFiles = [b \in Backups |-> <<>>]
    /\ singleFile = [b \in Backups |-> FALSE]
    /\ localPrefix = [b \in Backups |-> <<>>]
    /\ folderCase = [b \in Backups |-> FALSE]
    /\ pending = [b \in Backups |-> NoPending]
    /\ disk = {}
    /\ remote = [b \in Backups |-> {}]
    /\ credit = [b \in Backups |-> 0]
    /\ outcome = [b |-> 0, how |-> "none"]

Init ==
    /\ cfg \in Configs
    /\ Quiescent
    /\ eval = NoEval

\* ------------------------------------------------------------- scheduler
\* scheduler.tick() calls every job's closure synchronously on the main
\* thread: while a closure runs, the loop of main does nothing else.
MainThreadFreeSpawned == TRUE

MainThreadFree == \A b \in Backups : live[b] = 0

\* schedule.after(&last_tick).take(1): the first fire time after last_tick
NextEvent(b) ==
    CHOOSE t \in (lastTick[b] + 1)..(lastTick[b] + Period(b)) : FiresAt(b, t)

\* loop { scheduler.tick(); sleep(500ms) }: a pass over the jobs begins
BeginPass ==
    /\ ~crashed
    /\ jobIdx = 0
    /\ MainThreadFree
    /\ jobIdx' = 1
    /\ UNCHANGED << eval, cfg, now, polled, lastTick, tickNow, crashed, phase, live,
                    pipeVars, disk, remote, credit, outcome >>

\* Job::tick without a run: the first tick only records last_tick; later
\* ones find the next event still in the future.
JobTickIdle(j) ==
    /\ ~crashed
    /\ jobIdx = j
    /\ MainThreadFree
    /\ \/ lastTick[j] = -1
       \/ /\ lastTick[j] # -1
          /\ NextEvent(j) > now
    /\ lastTick' = [lastTick EXCEPT ![j] = now]
    /\ jobIdx' = j + 1
    /\ UNCHANGED << eval, cfg, now, polled, tickNow, crashed, phase, live, pipeVars,
                    disk, remote, credit, outcome >>

\* Job::tick with a due event: the closure is entered (backup.rs:308)
JobTickRun(j) ==
    /\ ~crashed
    /\ jobIdx = j
    /\ MainThreadFree
    /\ lastTick[j] # -1
    /\ NextEvent(j) <= now
    /\ tickNow' = [tickNow EXCEPT ![j] = now]
    /\ phase' = [phase EXCEPT ![j] = "Firing"]
    /\ live' = [live EXCEPT ![j] = @ + 1]
    /\ credit' = [credit EXCEPT ![j] = @ - 1]
    /\ calls' = <<>>
    /\ handle' = [handle EXCEPT ![j] = "unset"]
    /\ subproc' = [subproc EXCEPT ![j] = "none"]
    /\ localFiles' = [localFiles EXCEPT ![j] = <<>>]
    /\ singleFile' = [singleFile EXCEPT ![j] = FALSE]
    /\ localPrefix' = [localPrefix EXCEPT ![j] = <<>>]
    /\ folderCase' = [folderCase EXCEPT ![j] = FALSE]
    /\ pending' = [pending EXCEPT ![j] = NoPending]
    /\ UNCHANGED << eval, cfg, now, polled, jobIdx, lastTick, crashed, disk, remote,
                    outcome >>

\* the pass is over: the main thread sleeps
EndPass ==
    /\ ~crashed
    /\ jobIdx = NumBackups + 1
    /\ MainThreadFree
    /\ jobIdx' = 0
    /\ polled' = TRUE
    /\ UNCHANGED << eval, cfg, now, lastTick, tickNow, crashed, phase, live, pipeVars,
                    disk, remote, credit, outcome >>

\* The main thread is inside a call that blocks: the dump subprocess
\* (status().await) or an adapter call under executor::block_on.
Blocked(b) ==
    \/ phase[b] \in {"Dumping", "Retaining"}
    \/ /\ phase[b] = "Uploading"
       /\ (folderCase[b] \/ localFiles[b] # <<>>)

\* The clock moves on.  The loop sleeps less than one unit, so a pass has
\* completed since the last move unless the main thread is blocked in a
\* closure.
Advance ==
    /\ ~crashed
    /\ now < MaxTime
    /\ \/ polled
       \/ \E b \in Backups : Blocked(b)
    /\ now' = now + 1
    /\ polled' = FALSE
    /\ credit' = [b \in Backups |->
                     IF FiresAt(b, now + 1) /\ phase[b] = "Idle"
                     THEN credit[b] + 1 ELSE credit[b]]
    /\ UNCHANGED << eval, cfg, schedVars, crashed, phase, live, pipeVars, disk,
                    remote, outcome >>

\* --------------------------------------------------- leaving the closure
\* Dump::drop: remove the dump file when the handle carries a path
AfterDrop(b) == IF handle[b] = "some" THEN disk \ {b} ELSE disk

\* The closure returns: every local is dropped, Job::tick stores last_tick
\* and the scheduler goes on with the next job.
DropLocals(b) ==
    /\ handle' = [handle EXCEPT ![b] = "unset"]
    /\ disk' = AfterDrop(b)
    /\ subproc' = [subproc EXCEPT ![b] = "none"]
    /\ localFiles' = [localFiles EXCEPT ![b] = <<>>]
    /\ singleFile' = [singleFile EXCEPT ![b] = FALSE]
    /\ localPrefix' = [localPrefix EXCEPT ![b] = <<>>]
    /\ folderCase' = [folderCase EXCEPT ![b] = FALSE]
    /\ pending' = [pending EXCEPT ![b] = NoPending]

Return(b, how) ==
    /\ phase' = [phase EXCEPT ![b] = "Idle"]
    /\ live' = [live EXCEPT ![b] = @ - 1]
    /\ DropLocals(b)
    /\ lastTick' = [lastTick EXCEPT ![b] = tickNow[b]]
    /\ jobIdx' = b + 1
    /\ tickNow' = [tickNow EXCEPT ![b] = 0]
    /\ outcome' = [b |-> b, how |-> how]
    /\ UNCHANGED << eval, cfg, now, polled, crashed, credit >>

\* An unwrap() fails: the panic unwinds the closure (dropping the Dump
\* handle), scheduler.tick() and main; the process ends.
Panic(b) ==
    /\ phase' = [phase EXCEPT ![b] = "Panicked"]
    /\ live' = [live EXCEPT ![b] = @ - 1]
    /\ DropLocals(b)
    /\ crashed' = TRUE
    /\ outcome' = [b |-> b, how |-> "panic"]
    /\ UNCHANGED << eval, cfg, now, polled, schedVars, credit >>

\* One adapter call as the log keeps it: the backup, the operation, its
\* result, the local path(s) handed over and the remote path handed over.
Call(b, op, res, local, rpath) ==
    [b |-> b, op |-> op, res |-> res, local |-> local, rpath |-> rpath]

Logged(b, op, res) == Append(calls, Call(b, op, res, <<>>, <<>>))

LoggedWith(b, op, res, local, rpath) == Append(calls, Call(b, op, res, local, rpath))

\* ---------------------------------------------------------------- sources
\* The courses a call of dump() can take: a folder source runs no process;
\* a dumper can find its directory missing, fail to create the file
\* (container only), fail to spawn the process, or see it exit.
SubprocOutcomes(kind) ==
    CASE kind = "folder" -> {"no_process"}
      [] kind = "postgres" -> {"no_parent", "spawn_error", "exit_zero", "exit_nonzero"}
      [] kind = "docker" ->
            {"no_parent", "create_error", "spawn_error", "exit_zero", "exit_nonzero"}

\* Docker::dump creates the dump file itself (File::create) before it
\* spawns the command whose stdout it receives.
CreatesBeforeSpawn(kind, o) ==
    kind = "docker" /\ o \notin {"no_parent", "create_error"}

\* The value dump() returns: `match ....status().await { Ok(_) => Ok(Dump),
\* Err(e) => Err(..) }`; the exit status itself is not looked at.
DumpResult(kind, o) ==
    IF o \in {"no_process", "exit_zero", "exit_nonzero"} THEN "ok" ELSE "err"

\* Dump { path }: None for a folder, Some(dest) for the dumpers
HandleOf(kind) == IF kind = "folder" THEN "none" ELSE "some"

\* Service::list
ListResults(b) ==
    IF cfg[b].kind = "folder"
    THEN GlobResults
    ELSE IF b \in disk THEN { << DumpPath(b) >> } ELSE { <<>> }

\* --------------------------------------------------------------- pipeline
AfterDumpIgnoringError(res) == "Listing"

AfterDumpRetrying(res) == IF res = "err" THEN "Firing" ELSE "Listing"

\* match service.dump() { Err(error) => { error!(..); return; } Ok(dump) => dump }
AfterDump(res) == IF res = "err" THEN "Returning" ELSE "Listing"

\* service.dump() is entered: the subprocess is spawned (or fails to be)
DumpStart(b) ==
    /\ phase[b] = "Firing"
    /\ \E o \in SubprocOutcomes(cfg[b].kind) :
          /\ subproc' = [subproc EXCEPT ![b] = o]
          /\ disk' = IF CreatesBeforeSpawn(cfg[b].kind, o) THEN disk \cup {b} ELSE disk
    /\ phase' = [phase EXCEPT ![b] = "Dumping"]
    /\ UNCHANGED << eval, cfg, now, polled, schedVars, crashed, live, calls, handle, localFiles, singleFile, localPrefix, folderCase,
                    pending, remote, credit, outcome >>

\* What pg_dump -f leaves on disk: the file after a clean exit, the file or
\* nothing after a failed one, nothing when it never ran.
WrittenByProcess(b, o, wrote) ==
    IF cfg[b].kind = "postgres" /\ (o = "exit_zero" \/ (o = "exit_nonzero" /\ wrote))
    THEN disk \cup {b}
    ELSE disk

\* service.dump() returns
DumpReturn(b) ==
    /\ phase[b] = "Dumping"
    /\ LET res == DumpResult(cfg[b].kind, subproc[b])
       IN  /\ calls' = Logged(b, "dump", res)
           /\ handle' = [handle EXCEPT ![b] =
                            IF res = "ok" THEN HandleOf(cfg[b].kind) ELSE "unset"]
           /\ phase' = [phase EXCEPT ![b] = AfterDump(res)]
    /\ \E wrote \in BOOLEAN : disk' = WrittenByProcess(b, subproc[b], wrote)
    /\ UNCHANGED << eval, cfg, now, polled, schedVars, crashed, live, subproc,
                    localFiles, singleFile, localPrefix, folderCase, pending,
                    remote, credit, outcome >>

\* let mut single_file = local_files.len() <= 1;
SingleAtFirst(l) == Len(l) <= 1

\* local_prefix: the smallest path, or its parent when there are several
LocalPrefix(l) == IF SingleAtFirst(l) THEN MinPath(l) ELSE Parent(MinPath(l))

AllWithSamePrefix(l) == \A i \in 1..Len(l) : StartsWith(l[i], LocalPrefix(l))

FoldedToRootNever(b, l) == FALSE

\* if compress && !single_file && all_with_same_prefix
FoldedToRoot(b, l) == cfg[b].compress /\ ~SingleAtFirst(l) /\ AllWithSamePrefix(l)

\* if !single_file && all_with_same_prefix && !compress
IsFolderCase(b, l) ==
    /\ ~(SingleAtFirst(l) \/ FoldedToRoot(b, l))
    /\ AllWithSamePrefix(l)
    /\ ~cfg[b].compress

\* service.list() and the classification of its result (backup.rs:325-369)
List(b) ==
    /\ phase[b] = "Listing"
    /\ \E l \in ListResults(b) :
          /\ calls' = LoggedWith(b, "list", IF l = <<>> THEN "empty" ELSE "ok",
                                  l, <<>>)
          /\ IF l = <<>>
             THEN \* .min_by(..).unwrap() on an empty list
                  /\ Panic(b)
                  /\ UNCHANGED remote
             ELSE /\ localFiles' = [localFiles EXCEPT ![b] =
                                       IF FoldedToRoot(b, l)
                                       THEN << LocalPrefix(l) >> ELSE l]
                  /\ singleFile' = [singleFile EXCEPT ![b] =
                                       SingleAtFirst(l) \/ FoldedToRoot(b, l)]
                  /\ localPrefix' = [localPrefix EXCEPT ![b] = LocalPrefix(l)]
                  /\ folderCase' = [folderCase EXCEPT ![b] = IsFolderCase(b, l)]
                  /\ phase' = [phase EXCEPT ![b] = "Uploading"]
                  /\ UNCHANGED << eval, cfg, now, polled, schedVars, crashed, live,
                                  handle, subproc, pending, disk, remote,
                                  credit, outcome >>

\* ----------------------------------------------------------- destination
\* An object of the destination: the directory it lies in, its base name,
\* the UTC stamp put before the name (0: none) and the extension added.
Object(dir, base, stamp, ext) == [dir |-> dir, base |-> base, stamp |-> stamp, ext |-> ext]

\* upload_file(local, remote_path)
PlainObject(remotePath) == Object(Parent(remotePath), FileName(remotePath), 0, "")

\* remote_compressed_file_path: parent/<stamp>-<file name>.gz
GzObject(remotePath, t) == Object(Parent(remotePath), FileName(remotePath), t, "gz")

\* remote_archive_path: parent/<stamp>-<file name>.tar.gz
TarGzObject(remotePath, t) == Object(Parent(remotePath), FileName(remotePath), t, "tar.gz")

IsDir(p) == p \in LocalDirs

\* upload_folder copies the regular files among the first k paths of the
\* list, each to remote_path/(path - local_prefix)
FolderObjects(b, l, k) ==
    { PlainObject(Join(RemotePrefix(b), StripPrefix(l[i], LocalPrefix(l)))) :
        i \in { n \in 1..k : ~IsDir(l[n]) } }

\* if !single_file && all_with_same_prefix && !compress { upload_folder }
UploadFolder(b) ==
    /\ phase[b] = "Uploading"
    /\ folderCase[b]
    /\ \E k \in 0..Len(localFiles[b]) :
          /\ remote' = [remote EXCEPT ![b] = @ \cup FolderObjects(b, localFiles[b], k)]
          /\ calls' = LoggedWith(b, "upload_folder",
                                  IF k = Len(localFiles[b]) THEN "ok" ELSE "err",
                                  localFiles[b], RemotePrefix(b))
    /\ localFiles' = [localFiles EXCEPT ![b] = <<>>]
    /\ folderCase' = [folderCase EXCEPT ![b] = FALSE]
    /\ UNCHANGED << eval, cfg, now, polled, schedVars, crashed, phase, live, handle, subproc, singleFile, localPrefix, pending, disk,
                    credit, outcome >>

RemotePathOfPrefixItself(b, file) == RemotePrefix(b)

\* remote_prefix.join(file_name) or remote_prefix.join(file - local_prefix)
RemotePathOf(b, file) ==
    IF singleFile[b]
    THEN Join(RemotePrefix(b), << FileName(file) >>)
    ELSE Join(RemotePrefix(b), StripPrefix(file, localPrefix[b]))

\* The upload the loop body picks for one file
UploadOp(b, file) ==
    IF IsDir(file) THEN "upload_folder_compressed"
    ELSE IF cfg[b].compress THEN "upload_file_compressed"
    ELSE "upload_file"

Uploaded(op, remotePath, t) ==
    CASE op = "upload_folder_compressed" -> TarGzObject(remotePath, t)
      [] op = "upload_file_compressed" -> GzObject(remotePath, t)
      [] op = "upload_file" -> PlainObject(remotePath)

\* One iteration of `for file in local_files` up to the upload call
UploadItem(b) ==
    /\ phase[b] = "Uploading"
    /\ ~folderCase[b]
    /\ localFiles[b] # <<>>
    /\ LET file == Head(localFiles[b])
       IN  IF ~singleFile[b] /\ ~StartsWith(file, localPrefix[b])
           THEN \* file.strip_prefix(local_prefix).unwrap()
                /\ Panic(b)
                /\ UNCHANGED << calls, remote >>
           ELSE \E res \in {"ok", "err"} :
                   LET op == UploadOp(b, file)
                       rp == RemotePathOf(b, file)
                       retain == op = "upload_file_compressed" /\ cfg[b].keep > 0
                   IN  /\ calls' = LoggedWith(b, op, res, << file >>, rp)
                       /\ remote' = [remote EXCEPT ![b] =
                                        IF res = "ok" THEN @ \cup {Uploaded(op, rp, now)}
                                        ELSE @]
                       /\ localFiles' = [localFiles EXCEPT ![b] = Tail(@)]
                       /\ pending' = [pending EXCEPT ![b] =
                                         IF retain THEN [path |-> rp, result |-> res]
                                         ELSE NoPending]
                       /\ phase' = [phase EXCEPT ![b] =
                                       IF retain THEN "Retaining" ELSE "Uploading"]
                       /\ UNCHANGED << eval, cfg, now, polled, schedVars, crashed, live,
                                       handle, subproc, singleFile,
                                       localPrefix, folderCase, disk, credit, outcome >>

\* Remote::enumerate(dir): the names found under dir
Enumerate(b, dir) == { o \in remote[b] : o.dir = dir }

\* Ok(list) => { ...; if list.len() > to_keep as usize {} }: the body of the
\* test is empty, nothing is deleted.
AfterRetention(b, list) == remote[b]

\* if let Some(to_keep) = keep_last { match remote.enumerate(parent) {..} }
Retain(b) ==
    /\ phase[b] = "Retaining"
    /\ \E res \in {"ok", "err"} :
          /\ calls' = Logged(b, "enumerate", res)
          /\ remote' = [remote EXCEPT ![b] =
                           IF res = "ok"
                           THEN AfterRetention(b, Enumerate(b, Parent(pending[b].path)))
                           ELSE @]
    /\ pending' = [pending EXCEPT ![b] = NoPending]
    /\ phase' = [phase EXCEPT ![b] = "Uploading"]
    /\ UNCHANGED << eval, cfg, now, polled, schedVars, crashed, live, handle,
                    subproc, localFiles, singleFile, localPrefix, folderCase,
                    disk, credit, outcome >>

\* The closure returns, after the loop ("Next run" is logged) or from the
\* Err arm of the match on dump()
EndTick(b) ==
    /\ \/ phase[b] = "Returning"
       \/ /\ phase[b] = "Uploading"
          /\ ~folderCase[b]
          /\ localFiles[b] = <<>>
    /\ Return(b, IF phase[b] = "Returning" THEN "dump_failed" ELSE "done")
    /\ calls' = <<>>
    /\ UNCHANGED remote

Next ==
    \/ BeginPass
    \/ \E j \in Backups : JobTickIdle(j)
    \/ \E j \in Backups : JobTickRun(j)
    \/ EndPass
    \/ Advance
    \/ \E b \in Backups : DumpStart(b)
    \/ \E b \in Backups : DumpReturn(b)
    \/ \E b \in Backups : List(b)
    \/ \E b \in Backups : UploadFolder(b)
    \/ \E b \in Backups : UploadItem(b)
    \/ \E b \in Backups : Retain(b)
    \/ \E b \in Backups : EndTick(b)

Spec == Init /\ [][Next]_vars

TypeOK ==
    /\ now \in 0..MaxTime
    /\ jobIdx \in 0..(NumBackups + 1)
    /\ \A b \in Backups :
          /\ phase[b] \in {"Idle", "Firing", "Dumping", "Listing", "Uploading",
                           "Retaining", "Returning", "Panicked"}
          /\ handle[b] \in {"unset", "none", "some"}
          /\ lastTick[b] \in -1..MaxTime


\* ================================================== destination adapters
\* The upload operations of the four destinations, each examined as one
\* call: eval holds the call (operation, destination, arguments, the items
\* whose transfer fails, the UTC minute) and, once made, what it wrote and
\* returned.
Variants == {"localhost", "aws", "ssh", "git"}

\* The regular files of the local tree (see LocalDirs)
TreeFiles == { <<1, 1>>, <<1, 2>>, <<1, 3, 1>>, <<1, 4>>, <<2, 1>> }

\* The lists handed to upload_folder: the glob results, and lists of files
\* at different depths of one tree.
FolderLists ==
    (GlobResults \ { <<>> })
       \cup { << <<1, 2>>, <<1, 3, 1>> >>, << <<1, 3, 1>>, <<1, 4>> >> }

\* The remote paths handed over
RemotePaths == { <<7>>, <<7, 8>> }

\* The transfers that fail: the copy or put of the item at that position of
\* the list; 0 stands for the rsync or git command itself.
FailureSets == { {}, {0}, {1}, {2} }

\* Utc::now() at the call
Times ==
    { [Y |-> 2025, M |-> 1, D |-> 5, h |-> 4, m |-> 0],
      [Y |-> 2025, M |-> 12, D |-> 31, h |-> 23, m |-> 59],
      [Y |-> 2026, M |-> 11, D |-> 2, h |-> 9, m |-> 30] }

DigitChars == << "0", "1", "2", "3", "4", "5", "6", "7", "8", "9" >>

Digit(n) == DigitChars[n + 1]

\* %m, %d, %H, %M: two digits, zero-padded
Pad2(n) == << Digit(n \div 10), Digit(n % 10) >>

\* %Y
Pad4(n) == Pad2(n \div 100) \o Pad2(n % 100)

\* now.format("%Y-%m-%d-%H.%M")
FormatStamp(t) ==
    Pad4(t.Y) \o << "-" >> \o Pad2(t.M) \o << "-" >> \o Pad2(t.D) \o << "-" >>
       \o Pad2(t.h) \o << "." >> \o Pad2(t.m)

\* What a call leaves on the destination: an object, as a file or as a
\* directory that holds the transferred file.
Stored(object, as) == [object |-> object, as |-> as]

DoneCall(call, result, written) ==
    [call EXCEPT !.done = TRUE, !.result = result, !.written = written]

\* Localhost::upload_folder: the files of the list are copied in order, each
\* to root/remote_path/(path - local_prefix); the first failure returns (?).
RECURSIVE LocalhostUploadFolder(_, _, _, _, _)
LocalhostUploadFolder(paths, i, rp, fails, written) ==
    IF i > Len(paths) THEN [result |-> "ok", written |-> written]
    ELSE IF IsDir(paths[i]) THEN LocalhostUploadFolder(paths, i + 1, rp, fails, written)
    ELSE IF ~StartsWith(paths[i], LocalPrefix(paths))
         THEN [result |-> "panic", written |-> written]
    ELSE IF i \in fails \/ paths[i] = LocalPrefix(paths)
         THEN [result |-> "err", written |-> written]
    ELSE LocalhostUploadFolder(paths, i + 1, rp, fails,
             written \cup { Join(rp, StripPrefix(paths[i], LocalPrefix(paths))) })

\* AwsBucket::upload_folder: every remote path is computed first
\* (strip_prefix(..).unwrap()), then the files are put concurrently;
\* join_all(futures) drops the results and Ok(()) is returned.
AwsUploadFolder(paths, rp, fails) ==
    IF \E i \in 1..Len(paths) : ~StartsWith(paths[i], LocalPrefix(paths))
    THEN [result |-> "panic", written |-> {}]
    ELSE [result |-> "ok",
          written |-> { Join(rp, StripPrefix(paths[i], LocalPrefix(paths))) :
                           i \in { n \in 1..Len(paths) :
                                      ~IsDir(paths[n]) /\ n \notin fails } }]

\* Ssh::upload_folder: rsync -az <local_prefix> host:<remote_path> --delete.
\* The source has no trailing slash: rsync recreates the directory
\* local_prefix itself under remote_path, with every file of the tree.
SshUploadFolder(paths, rp, fails) ==
    IF 0 \in fails THEN [result |-> "err", written |-> {}]
    ELSE [result |-> "ok",
          written |->
             { Join(rp, (IF LocalPrefix(paths) = <<>> THEN <<>>
                         ELSE << FileName(LocalPrefix(paths)) >>)
                           \o StripPrefix(f, LocalPrefix(paths))) :
                  f \in { g \in TreeFiles : StartsWith(g, LocalPrefix(paths)) } }]

\* Git::upload_folder: every path is copied to dest.join(path.file_name()),
\* a directory is created under its own name; then add, commit and push.
RECURSIVE GitUploadFolder(_, _, _, _, _)
GitUploadFolder(paths, i, rp, fails, written) ==
    IF i > Len(paths)
    THEN [result |-> IF 0 \in fails THEN "err" ELSE "ok", written |-> written]
    ELSE IF IsDir(paths[i]) THEN GitUploadFolder(paths, i + 1, rp, fails, written)
    ELSE IF i \in fails THEN [result |-> "err", written |-> written]
    ELSE GitUploadFolder(paths, i + 1, rp, fails,
             written \cup { Join(rp, << FileName(paths[i]) >>) })

UploadFolderOn(variant, paths, rp, fails) ==
    CASE variant = "localhost" -> LocalhostUploadFolder(paths, 1, rp, fails, {})
      [] variant = "aws" -> AwsUploadFolder(paths, rp, fails)
      [] variant = "ssh" -> SshUploadFolder(paths, rp, fails)
      [] variant = "git" -> GitUploadFolder(paths, 1, rp, fails, {})

\* How the object named by the stamped path is left on a destination: the
\* file itself, or (Git::upload_file: dest = repo.join(remote_path);
\* copy(path, dest.join(path.file_name()))) a directory of that name that
\* holds the file.
StoredAs(variant) == IF variant = "git" THEN "dir" ELSE "file"

\* upload_file_compressed: compress_file, remote_compressed_file_path, write
UploadFileCompressedOn(variant, local, rp, t, fails) ==
    IF IsDir(local) \/ fails # {}
    THEN [result |-> "err", written |-> {}]
    ELSE [result |-> "ok",
          written |-> { Stored(GzObject(rp, FormatStamp(t)), StoredAs(variant)) }]

UploadFolderCompressedUnchecked(variant, local, rp, t, fails) ==
    IF fails # {} THEN [result |-> "err", written |-> {}]
    ELSE [result |-> "ok",
          written |-> { Stored(TarGzObject(rp, FormatStamp(t)), StoredAs(variant)) }]

\* upload_folder_compressed: NotADirectory unless path.is_dir(), then
\* remote_archive_path, compress_folder, upload_file
UploadFolderCompressedOn(variant, local, rp, t, fails) ==
    IF ~IsDir(local) THEN [result |-> "NotADirectory", written |-> {}]
    ELSE IF fails # {} THEN [result |-> "err", written |-> {}]
    ELSE [result |-> "ok",
          written |-> { Stored(TarGzObject(rp, FormatStamp(t)), StoredAs(variant)) }]

RemoteCalls ==
    { [op |-> "upload_folder", variant |-> v, paths |-> l, rpath |-> rp,
       fails |-> f, t |-> t, done |-> FALSE, result |-> "none", written |-> {}] :
         v \in Variants, l \in FolderLists, rp \in RemotePaths, f \in FailureSets,
         t \in { CHOOSE x \in Times : TRUE } }
    \cup
    { [op |-> o, variant |-> v, paths |-> << l >>, rpath |-> rp,
       fails |-> f, t |-> t, done |-> FALSE, result |-> "none", written |-> {}] :
         o \in {"upload_file_compressed", "upload_folder_compressed"},
         v \in Variants, l \in { <<1, 1>>, <<1>>, <<1, 3>> }, rp \in RemotePaths,
         f \in { {}, {1} }, t \in Times }

InitRemote ==
    /\ cfg = [b \in Backups |-> [kind |-> "docker", compress |-> FALSE, keep |-> 0]]
    /\ Quiescent
    /\ eval \in RemoteCalls

UploadFolderCall ==
    /\ eval.op = "upload_folder"
    /\ ~eval.done
    /\ LET r == UploadFolderOn(eval.variant, eval.paths, eval.rpath, eval.fails)
       IN  eval' = DoneCall(eval, r.result, r.written)
    /\ UNCHANGED << cfg, now, polled, schedVars, crashed, phase, live, pipeVars,
                    disk, remote, credit, outcome >>

UploadFileCompressedCall ==
    /\ eval.op = "upload_file_compressed"
    /\ ~eval.done
    /\ LET r == UploadFileCompressedOn(eval.variant, eval.paths[1], eval.rpath,
                                       eval.t, eval.fails)
       IN  eval' = DoneCall(eval, r.result, r.written)
    /\ UNCHANGED << cfg, now, polled, schedVars, crashed, phase, live, pipeVars,
                    disk, remote, credit, outcome >>

UploadFolderCompressedCall ==
    /\ eval.op = "upload_folder_compressed"
    /\ ~eval.done
    /\ LET r == UploadFolderCompressedOn(eval.variant, eval.paths[1], eval.rpath,
                                         eval.t, eval.fails)
       IN  eval' = DoneCall(eval, r.result, r.written)
    /\ UNCHANGED << cfg, now, polled, schedVars, crashed, phase, live, pipeVars,
                    disk, remote, credit, outcome >>

NextRemote ==
    \/ UploadFolderCall
    \/ UploadFileCompressedCall
    \/ UploadFolderCompressedCall

SpecRemote == InitRemote /\ [][NextRemote]_vars


\* ======================================================= cadence parser
\* A string is the sequence of its characters.
UpperChars == << "A", "B", "C", "D", "E", "F", "G", "H", "I", "J", "K", "L", "M", "N", "O", "P", "Q", "R", "S", "T", "U", "V", "W", "X", "Y", "Z" >>

LowerChars == << "a", "b", "c", "d", "e", "f", "g", "h", "i", "j", "k", "l", "m", "n", "o", "p", "q", "r", "s", "t", "u", "v", "w", "x", "y", "z" >>

\* str::to_lowercase
ToLower(s) ==
    [i \in 1..Len(s) |->
        IF \E k \in 1..Len(UpperChars) : UpperChars[k] = s[i]
        THEN LowerChars[CHOOSE k \in 1..Len(UpperChars) : UpperChars[k] = s[i]]
        ELSE s[i]]

\* str::contains(pat)
Contains(s, pat) ==
    \E i \in 1..(Len(s) - Len(pat) + 1) : SubSeq(s, i, i + Len(pat) - 1) = pat

\* str::replace(pat, ""): every occurrence, found from the left
RECURSIVE RemoveAll(_, _)
RemoveAll(s, pat) ==
    IF Len(s) < Len(pat) THEN s
    ELSE IF SubSeq(s, 1, Len(pat)) = pat
         THEN RemoveAll(SubSeq(s, Len(pat) + 1, Len(s)), pat)
         ELSE << Head(s) >> \o RemoveAll(Tail(s), pat)

\* str::trim
RECURSIVE TrimStart(_)
TrimStart(s) == IF s # <<>> /\ Head(s) = " " THEN TrimStart(Tail(s)) ELSE s

RECURSIVE TrimEnd(_)
TrimEnd(s) ==
    IF s # <<>> /\ s[Len(s)] = " " THEN TrimEnd(SubSeq(s, 1, Len(s) - 1)) ELSE s

Trim(s) == TrimEnd(TrimStart(s))

IsDigit(c) == \E k \in 1..Len(DigitChars) : DigitChars[k] = c

DigitValue(c) == (CHOOSE k \in 1..Len(DigitChars) : DigitChars[k] = c) - 1

\* Regex (\d{2}):(\d{2}): where the leftmost match starts (0: no match)
FindTime(s) ==
    LET starts == { i \in 1..(Len(s) - 4) :
                       /\ IsDigit(s[i]) /\ IsDigit(s[i + 1])
                       /\ s[i + 2] = ":"
                       /\ IsDigit(s[i + 3]) /\ IsDigit(s[i + 4]) }
    IN  IF starts = {} THEN 0
        ELSE CHOOSE i \in starts : \A j \in starts : i <= j

NoTime == [ok |-> FALSE, h |-> 0, m |-> 0]

GetHoursAndMinutesAnyRange(when) ==
    LET i == FindTime(when)
    IN  IF i = 0 THEN NoTime
        ELSE [ok |-> TRUE,
              h |-> 10 * DigitValue(when[i]) + DigitValue(when[i + 1]),
              m |-> 10 * DigitValue(when[i + 3]) + DigitValue(when[i + 4])]

\* get_hours_and_minutes: the captures, when (0..24) and (0..60) hold them
GetHoursAndMinutes(when) ==
    LET i == FindTime(when)
    IN  IF i = 0 THEN NoTime
        ELSE LET h == 10 * DigitValue(when[i]) + DigitValue(when[i + 1])
                 m == 10 * DigitValue(when[i + 3]) + DigitValue(when[i + 4])
             IN  IF h < 24 /\ m < 60 THEN [ok |-> TRUE, h |-> h, m |-> m]
                 ELSE NoTime

\* format!("{:02}:{:02}", hm.0, hm.1)
TimeText(hm) == Pad2(hm.h) \o << ":" >> \o Pad2(hm.m)

\* format!("{}", n) of a small non-negative number
Dec(n) == IF n < 10 THEN << Digit(n) >> ELSE << Digit(n \div 10), Digit(n % 10) >>

RECURSIVE DigitsValue(_)
DigitsValue(s) ==
    IF s = <<>> THEN 0
    ELSE 10 * DigitsValue(SubSeq(s, 1, Len(s) - 1)) + DigitValue(s[Len(s)])

\* str::parse::<i8>(): an optional sign, then digits, within -128..127
ParseI8(s) ==
    LET signed == s # <<>> /\ Head(s) \in {"+", "-"}
        digits == IF signed THEN Tail(s) ELSE s
        value == IF signed /\ Head(s) = "-" THEN 0 - DigitsValue(digits)
                 ELSE DigitsValue(digits)
    IN  IF digits = <<>> \/ \E i \in 1..Len(digits) : ~IsDigit(digits[i])
        THEN [ok |-> FALSE, val |-> 0]
        ELSE IF value < -128 \/ value > 127 THEN [ok |-> FALSE, val |-> 0]
        ELSE [ok |-> TRUE, val |-> value]

\* format!("{} {} {} {} {} {} {}", ..): the fields separated by one blank
RECURSIVE CronLine(_)
CronLine(fields) ==
    IF Len(fields) = 1 THEN fields[1]
    ELSE fields[1] \o << " " >> \o CronLine(Tail(fields))

Star == << "*" >>

WhenErr == [ok |-> FALSE, text |-> <<>>, by |-> "none"]

WhenOk(text, by) == [ok |-> TRUE, text |-> text, by |-> by]

DailyWord == << "d", "a", "i", "l", "y" >>

MonthlyWord == << "m", "o", "n", "t", "h", "l", "y" >>

WeeklyWord == << "w", "e", "e", "k", "l", "y" >>

\* (Weekday::Mon, "Monday") ..: to_string().to_lowercase() and the full name
\* lowercased, in the order of the vector
WeekdayNames ==
    << [short |-> << "m", "o", "n" >>, long |-> << "m", "o", "n", "d", "a", "y" >>],
       [short |-> << "t", "u", "e" >>, long |-> << "t", "u", "e", "s", "d", "a", "y" >>],
       [short |-> << "w", "e", "d" >>, long |-> << "w", "e", "d", "n", "e", "s", "d", "a", "y" >>],
       [short |-> << "t", "h", "u" >>, long |-> << "t", "h", "u", "r", "s", "d", "a", "y" >>],
       [short |-> << "f", "r", "i" >>, long |-> << "f", "r", "i", "d", "a", "y" >>],
       [short |-> << "s", "a", "t" >>, long |-> << "s", "a", "t", "u", "r", "d", "a", "y" >>],
       [short |-> << "s", "u", "n" >>, long |-> << "s", "u", "n", "d", "a", "y" >>] >>

\* What is left of the input once the time is removed and the rest trimmed
WithoutTime(input, hm) == Trim(RemoveAll(input, TimeText(hm)))

\* parse_daily
ParseDaily(input) ==
    IF ~Contains(input, DailyWord) THEN WhenErr
    ELSE LET rest == RemoveAll(input, DailyWord)
             hm == GetHoursAndMinutes(rest)
         IN  IF ~hm.ok THEN WhenErr
             ELSE IF WithoutTime(rest, hm) # <<>> THEN WhenErr
             ELSE WhenOk(CronLine(<< Dec(0), Dec(hm.m), Dec(hm.h),
                                     Star, Star, Star, Star >>), "daily")

WeekdayNumberFromSunday(k) == (k % 7) + 1

\* Weekday::from_str(&day.0).unwrap().number_from_monday()
WeekdayNumber(k) == k

\* parse_weekly: the first weekday of the vector the input contains decides
ParseWeekly(input) ==
    LET found == { k \in 1..Len(WeekdayNames) :
                      \/ Contains(input, WeekdayNames[k].short)
                      \/ Contains(input, WeekdayNames[k].long) }
    IN  IF found = {} THEN WhenErr
        ELSE LET k == CHOOSE x \in found : \A y \in found : x <= y
                 word == IF Contains(input, WeekdayNames[k].long)
                         THEN WeekdayNames[k].long ELSE WeekdayNames[k].short
                 rest == RemoveAll(input, word)
                 hm == GetHoursAndMinutes(rest)
             IN  IF ~hm.ok THEN WhenErr
                 ELSE IF WithoutTime(rest, hm) \notin { <<>>, WeeklyWord } THEN WhenErr
                 ELSE WhenOk(CronLine(<< Dec(0), Dec(hm.m), Dec(hm.h), Star, Star,
                                         Dec(WeekdayNumber(k)), Star >>), "weekly")

\* parse_monthly
ParseMonthly(input) ==
    IF ~Contains(input, MonthlyWord) THEN WhenErr
    ELSE LET rest == RemoveAll(input, MonthlyWord)
             hm == GetHoursAndMinutes(rest)
         IN  IF ~hm.ok THEN WhenErr
             ELSE LET day == ParseI8(WithoutTime(rest, hm))
                  IN  IF ~day.ok THEN WhenErr
                      ELSE IF day.val < 1 \/ day.val >= 32 THEN WhenErr
                      ELSE WhenOk(CronLine(<< Dec(0), Dec(hm.m), Dec(hm.h),
                                              Dec(day.val), Star, Star, Star >>),
                                  "monthly")

\* The first of the three results that is Ok
FirstOk(daily, monthly, weekly) ==
    IF daily.ok THEN daily
    ELSE IF monthly.ok THEN monthly
    ELSE IF weekly.ok THEN weekly
    ELSE WhenErr

\* parse_when: lowercase, then daily, monthly, weekly
ParseWhen(when) ==
    FirstOk(ParseDaily(ToLower(when)), ParseMonthly(ToLower(when)),
            ParseWeekly(ToLower(when)))

\* str::split_whitespace
RECURSIVE SplitFields(_)
SplitFields(s) ==
    LET t == TrimStart(s)
    IN  IF t = <<>> THEN <<>>
        ELSE LET stops == { i \in 1..Len(t) : t[i] = " " }
                 n == IF stops = {} THEN Len(t) + 1
                      ELSE CHOOSE i \in stops : \A j \in stops : i <= j
             IN  << SubSeq(t, 1, n - 1) >> \o SplitFields(SubSeq(t, n, Len(t)))

\* The values a field of a cron expression may name, by position: seconds,
\* minutes, hours, days of month, months, days of week, years.
CronRange(pos) ==
    CASE pos \in {1, 2} -> 0..59
      [] pos = 3 -> 0..23
      [] pos = 4 -> 1..31
      [] pos = 5 -> 1..12
      [] pos = 6 -> 1..7
      [] pos = 7 -> 1970..2100

\* The ordinal the cron expression gives a day of the week by its name:
\* Sunday is 1, Saturday 7.
CronDayOfWeek(name) ==
    LET found == { k \in 1..Len(WeekdayNames) :
                      ToLower(name) \in {WeekdayNames[k].short, WeekdayNames[k].long} }
    IN  IF found = {} THEN 0 ELSE ((CHOOSE k \in found : TRUE) % 7) + 1

\* One field: the set of values it admits; * admits the whole range, a
\* number or a weekday name itself, anything else nothing.
CronField(pos, f) ==
    IF f = Star THEN CronRange(pos)
    ELSE IF f # <<>> /\ Len(f) <= 4 /\ \A i \in 1..Len(f) : IsDigit(f[i])
         THEN {DigitsValue(f)} \cap CronRange(pos)
    ELSE IF pos = 6 /\ CronDayOfWeek(f) # 0 THEN {CronDayOfWeek(f)}
    ELSE {}

\* cron::Schedule::from_str: six or seven fields, each of them valid; a
\* schedule without a years field admits every year
CronFromStr(text) ==
    LET fields == SplitFields(text)
        values == [pos \in 1..7 |->
                      IF pos <= Len(fields) THEN CronField(pos, fields[pos])
                      ELSE CronRange(pos)]
    IN  IF Len(fields) \notin {6, 7} THEN [ok |-> FALSE, values |-> <<>>]
        ELSE IF \E pos \in 1..7 : values[pos] = {}
             THEN [ok |-> FALSE, values |-> <<>>]
        ELSE [ok |-> TRUE, values |-> values]

\* Ok(Backup { .. }) with the schedule, or Err(InvalidCronConfiguration)
Built(parsed, toParse, schedule) ==
    [ok |-> schedule.ok,
     error |-> IF schedule.ok THEN "none" ELSE "InvalidCronConfiguration",
     parsed |-> parsed,
     toParse |-> toParse,
     schedule |-> schedule.values]

FromCron(parsed, toParse) == Built(parsed, toParse, CronFromStr(toParse))

FromWhenNoFallback(parsed, when) == FromCron(parsed.ok, parsed.text)

\* to_parse: the line of parse_when when it is Ok, &config.when otherwise
FromWhen(parsed, when) == FromCron(parsed.ok, IF parsed.ok THEN parsed.text ELSE when)

\* Backup::new
BackupNew(when) == FromWhen(ParseWhen(when), when)

\* ------------------------------------------------------------ calendar
\* Day 0 is Wednesday 2025-01-01; the days run from January into April 2025.
LastDay == 89

DayOfMonth(day) ==
    IF day < 31 THEN day + 1
    ELSE IF day < 59 THEN day - 30
    ELSE IF day < 90 THEN day - 58 ELSE day - 89

MonthOf(day) == IF day < 31 THEN 1 ELSE IF day < 59 THEN 2 ELSE IF day < 90 THEN 3 ELSE 4

\* Weekday::number_from_monday of the day
WeekdayOf(day) == ((day + 2) % 7) + 1

\* The ordinal the cron schedule compares with its days-of-week field:
\* number_from_sunday
CronWeekdayOf(day) == (WeekdayOf(day) % 7) + 1

Before(a, b) ==
    \/ a.day < b.day
    \/ a.day = b.day /\ a.h < b.h
    \/ a.day = b.day /\ a.h = b.h /\ a.m < b.m

NoFire == [day |-> -1, h |-> 0, m |-> 0]

\* The first of a set of instants
Earliest(instants) ==
    IF instants = {} THEN NoFire
    ELSE CHOOSE x \in instants : \A y \in instants : x = y \/ Before(x, y)

\* The year of every day of the calendar
CalendarYear == 2025

\* schedule.after(at).next(): the first instant after `at` that every field
\* of the schedule admits; instants are whole minutes, so the schedule
\* fires on them when its seconds field admits 0
NextFire(schedule, at) ==
    Earliest({ x \in [day : at.day..LastDay, h : schedule[3], m : schedule[2]] :
                  /\ Before(at, x)
                  /\ 0 \in schedule[1]
                  /\ DayOfMonth(x.day) \in schedule[4]
                  /\ MonthOf(x.day) \in schedule[5]
                  /\ CronWeekdayOf(x.day) \in schedule[6]
                  /\ CalendarYear \in schedule[7] })

\* ------------------------------------------------- the cadences examined
Blank == << " " >>

Hours == {0, 9, 23, 24, 55}

Minutes == {0, 30, 59, 60}

\* The HH:MM tokens, with the hour and minute they name
TimeTokens ==
    { [h |-> h, m |-> m, tok |-> Pad2(h) \o << ":" >> \o Pad2(m)] :
         h \in Hours, m \in Minutes }
    \cup { [h |-> -1, m |-> 0, tok |-> << "-", "1", ":", "0", "0" >>] }

\* The keywords as an operator may write them; good: spelled right
DailyKeywords ==
    { [good |-> TRUE, tok |-> << "d", "a", "i", "l", "y" >>], [good |-> TRUE, tok |-> << "D", "a", "i", "l", "y" >>],
      [good |-> TRUE, tok |-> << "D", "A", "I", "L", "Y" >>], [good |-> FALSE, tok |-> << "d", "a", "y", "l", "y" >>],
      [good |-> FALSE, tok |-> << "d", "i", "a", "l", "y" >>] }

MonthlyKeywords ==
    { [good |-> TRUE, tok |-> << "m", "o", "n", "t", "h", "l", "y" >>], [good |-> TRUE, tok |-> << "M", "o", "n", "t", "h", "l", "y" >>],
      [good |-> FALSE, tok |-> << "m", "o", "n", "t", "h", "t", "l", "y" >>] }

WeeklyKeywords ==
    { [good |-> TRUE, tok |-> <<>>], [good |-> TRUE, tok |-> << "w", "e", "e", "k", "l", "y", " " >>],
      [good |-> TRUE, tok |-> << "W", "E", "E", "K", "L", "Y", " " >>], [good |-> FALSE, tok |-> << "w", "a", "t", "l", "y", " " >>],
      [good |-> FALSE, tok |-> << "w", "e", "a", "k", "l", "y", " " >>] }

\* The weekday tokens with the weekday they name (Monday 1 .. Sunday 7;
\* 0: a misspelling)
WeekdayTokens ==
    { [w |-> k, tok |-> WeekdayNames[k].short] : k \in 1..7 }
    \cup { [w |-> k, tok |-> WeekdayNames[k].long] : k \in 1..7 }
    \cup { [w |-> 1, tok |-> << "M", "o", "n" >>], [w |-> 6, tok |-> << "S", "a", "t", "u", "r", "d", "a", "y" >>],
           [w |-> 7, tok |-> << "S", "U", "N" >>],
           [w |-> 0, tok |-> << "m", "o", "n", "z", "a", "y" >>], [w |-> 0, tok |-> << "m", "o", "o", "n", "d", "a", "y" >>],
           [w |-> 0, tok |-> << "s", "u", "n", "d", "a", "y", "s" >>], [w |-> 0, tok |-> << "t", "o", "d", "a", "y" >>],
           [w |-> 0, tok |-> << "t", "u", "e", "s" >>], [w |-> 0, tok |-> << "w", "e", "n", "s", "d", "a", "y" >>] }

\* The day-of-month tokens with the day they name (-99: none given)
DayTokens ==
    { [d |-> 1, tok |-> << "1" >>], [d |-> 15, tok |-> << "1", "5" >>], [d |-> 31, tok |-> << "3", "1" >>],
      [d |-> 0, tok |-> << "0" >>], [d |-> 32, tok |-> << "3", "2" >>], [d |-> -1, tok |-> << "-", "1" >>],
      [d |-> 200, tok |-> << "2", "0", "0" >>], [d |-> -99, tok |-> <<>>] }

\* Text left after the cadence
Extras == { <<>>, << " ", "x" >>, << " ", "1", "3", ":", "3", "0" >> }

Cadence(form, kw, w, d, time, extra, text) ==
    [form |-> form, kwGood |-> kw, w |-> w, d |-> d, h |-> time.h, m |-> time.m,
     extra |-> extra, text |-> text]

Cadences ==
    { Cadence("daily", k.good, 0, 0, t, x, k.tok \o Blank \o t.tok \o x) :
         k \in DailyKeywords, t \in TimeTokens, x \in Extras }
    \cup
    { Cadence("monthly", k.good, 0, d.d, t, x,
              k.tok \o Blank \o d.tok \o Blank \o t.tok \o x) :
         k \in MonthlyKeywords, d \in DayTokens,
         t \in { y \in TimeTokens : y.m \in {30, 60} }, x \in Extras }
    \cup
    { Cadence("weekly", k.good, w.w, 0, t, x,
              k.tok \o w.tok \o Blank \o t.tok \o x) :
         k \in WeeklyKeywords, w \in WeekdayTokens,
         t \in { y \in TimeTokens : y.m = 30 /\ y.h \in {9, 24} }, x \in Extras }

\* Raw when strings, with whether they are cron expressions
RawCrons ==
    { [valid |-> TRUE, text |-> << "0", " ", "3", "0", " ", "9", " ", "*", " ", "*", " ", "*", " ", "*" >>],
      [valid |-> TRUE, text |-> << "0", " ", "3", "0", " ", "9", " ", "*", " ", "*", " ", "*" >>],
      [valid |-> TRUE, text |-> << "0", " ", "0", " ", "4", " ", "*", " ", "*", " ", "M", "o", "n", " ", "*" >>],
      [valid |-> TRUE, text |-> << "0", " ", "0", " ", "4", " ", "1", " ", "*", " ", "*", " ", "2", "0", "2", "5" >>],
      [valid |-> FALSE, text |-> << "0", " ", "3", "0", " ", "9", " ", "*", " ", "*" >>],
      [valid |-> FALSE, text |-> << "0", " ", "3", "0", " ", "9", " ", "*", " ", "*", " ", "8", " ", "*" >>],
      [valid |-> FALSE, text |-> << "0", " ", "6", "0", " ", "9", " ", "*", " ", "*", " ", "*", " ", "*" >>],
      [valid |-> FALSE, text |-> << "e", "v", "e", "r", "y", " ", "d", "a", "y" >>] }

\* The instants a schedule is asked for its next fire at
Instants ==
    [day : {0, 3, 4, 5, 30, 31}, h : {0, 9, 23}, m : {0, 30}]

WhenCalls ==
    { [op |-> "parse_when", cadence |-> c, at |-> NoFire, done |-> FALSE,
       result |-> WhenErr] : c \in Cadences }
    \cup
    { [op |-> "new", cadence |-> c, at |-> NoFire, done |-> FALSE,
       result |-> WhenErr] :
         c \in { x \in Cadences : x.extra = <<>> /\ x.m = 30 }
                  \cup { Cadence("cron", r.valid, 0, 0, NoFire, <<>>, r.text) :
                            r \in RawCrons } }
    \cup
    { [op |-> "upcoming", cadence |-> c, at |-> t, done |-> FALSE,
       result |-> WhenErr] :
         c \in { x \in Cadences :
                    /\ x.extra = <<>> /\ x.kwGood
                    /\ x.h \in {9, 23} /\ x.m \in {0, 30}
                    /\ (x.form = "weekly" => x.w # 0)
                    /\ (x.form = "monthly" => x.d \in 1..31) },
         t \in Instants }

InitWhen ==
    /\ cfg = [b \in Backups |-> [kind |-> "docker", compress |-> FALSE, keep |-> 0]]
    /\ Quiescent
    /\ eval \in WhenCalls

\* Backup::parse_when(when)
ParseWhenCall ==
    /\ eval.op = "parse_when"
    /\ ~eval.done
    /\ eval' = [eval EXCEPT !.done = TRUE, !.result = ParseWhen(eval.cadence.text)]
    /\ UNCHANGED << cfg, now, polled, schedVars, crashed, phase, live, pipeVars,
                    disk, remote, credit, outcome >>

\* Backup::new(name, remote, service, config)
BackupNewCall ==
    /\ eval.op = "new"
    /\ ~eval.done
    /\ eval' = [eval EXCEPT !.done = TRUE, !.result = BackupNew(eval.cadence.text)]
    /\ UNCHANGED << cfg, now, polled, schedVars, crashed, phase, live, pipeVars,
                    disk, remote, credit, outcome >>

\* The next fire of the schedule of a backup that was built
Upcoming(built, at) ==
    [ok |-> built.ok,
     fire |-> IF built.ok THEN NextFire(built.schedule, at) ELSE NoFire]

\* Backup::new(..) and then schedule.after(at).next()
UpcomingCall ==
    /\ eval.op = "upcoming"
    /\ ~eval.done
    /\ eval' = [eval EXCEPT !.done = TRUE,
                            !.result = Upcoming(BackupNew(eval.cadence.text), eval.at)]
    /\ UNCHANGED << cfg, now, polled, schedVars, crashed, phase, live, pipeVars,
                    disk, remote, credit, outcome >>

NextWhen ==
    \/ ParseWhenCall
    \/ BackupNewCall
    \/ UpcomingCall

SpecWhen == InitWhen /\ [][NextWhen]_vars


\* ------------------------------------------------------------- startup
\* main: adapters are constructed, the backup entries are checked and built
\* in the order the HashMap yields them, then registered, then ticked.
EntryNames == { "foo", "bar", "baz" }

\* The keys of `services` and of `remotes` once construction is through
Services == { "folders.www", "postgres.db" }

Remotes == { "aws.bucket" }

EntryConfigs ==
    [what : { "folders.www", "postgres.db", "postgres.missing" },
     where : { "aws.bucket", "aws.missing" },
     when : { << "d", "a", "i", "l", "y", " ", "0", "4", ":", "0", "0" >>, << "d", "a", "y", "l", "y", " ", "0", "4", ":", "0", "0" >> }]

\* The adapters whose construction fails: none or one of those configured
FailingAdapters == { {} } \cup { {a} : a \in Services \cup Remotes }

StartupInputs ==
    { [op |-> "startup", entries |-> e, failing |-> f, adapterFails |-> f # {},
       pc |-> "construct", todo |-> EntryNames, built |-> {}, registered |-> {},
       ran |-> {}, log |-> <<>>, exit |-> 0] :
         e \in [EntryNames -> EntryConfigs], f \in FailingAdapters }

InitStartup ==
    /\ cfg = [b \in Backups |-> [kind |-> "docker", compress |-> FALSE, keep |-> 0]]
    /\ Quiescent
    /\ eval \in StartupInputs

\* The new(..).unwrap() of every configured adapter: a failing construction
\* panics
ConstructAdapters ==
    /\ eval.op = "startup"
    /\ eval.pc = "construct"
    /\ eval' = IF eval.adapterFails
               THEN [eval EXCEPT !.pc = "panicked", !.exit = 101]
               ELSE [eval EXCEPT !.pc = "build"]
    /\ UNCHANGED << cfg, now, polled, schedVars, crashed, phase, live, pipeVars,
                    disk, remote, credit, outcome >>

\* One round of `for (backup_name, config) in config.backup`
VisitEntry(n) ==
    /\ eval.op = "startup"
    /\ eval.pc = "build"
    /\ n \in eval.todo
    /\ LET config == eval.entries[n]
       IN  eval' =
             IF config.what \notin Services
             THEN [eval EXCEPT !.pc = "exited", !.exit = 1,
                               !.log = Append(@, [entry |-> n, invalid |-> "what",
                                                  names |-> Services])]
             ELSE IF config.where \notin Remotes
             THEN [eval EXCEPT !.pc = "exited", !.exit = 1,
                               !.log = Append(@, [entry |-> n, invalid |-> "where",
                                                  names |-> Remotes])]
             ELSE IF ~BackupNew(config.when).ok
             THEN [eval EXCEPT !.pc = "panicked", !.exit = 101]
             ELSE [eval EXCEPT !.todo = @ \ {n}, !.built = @ \cup {n}]
    /\ UNCHANGED << cfg, now, polled, schedVars, crashed, phase, live, pipeVars,
                    disk, remote, credit, outcome >>

\* JobScheduler::new() after the last entry
StartScheduling ==
    /\ eval.op = "startup"
    /\ eval.pc = "build"
    /\ eval.todo = {}
    /\ eval' = [eval EXCEPT !.pc = "schedule"]
    /\ UNCHANGED << cfg, now, polled, schedVars, crashed, phase, live, pipeVars,
                    disk, remote, credit, outcome >>

\* One round of `for (name, job) in backup`: job.schedule(&mut scheduler, ..)
ScheduleEntry(n) ==
    /\ eval.op = "startup"
    /\ eval.pc = "schedule"
    /\ n \in eval.built \ eval.registered
    /\ eval' = [eval EXCEPT !.registered = @ \cup {n}]
    /\ UNCHANGED << cfg, now, polled, schedVars, crashed, phase, live, pipeVars,
                    disk, remote, credit, outcome >>

\* The tick loop is entered
StartTicking ==
    /\ eval.op = "startup"
    /\ eval.pc = "schedule"
    /\ eval.registered = eval.built
    /\ eval' = [eval EXCEPT !.pc = "running"]
    /\ UNCHANGED << cfg, now, polled, schedVars, crashed, phase, live, pipeVars,
                    disk, remote, credit, outcome >>

\* scheduler.tick() runs a registered job
TickEntry(n) ==
    /\ eval.op = "startup"
    /\ eval.pc = "running"
    /\ n \in eval.registered \ eval.ran
    /\ eval' = [eval EXCEPT !.ran = @ \cup {n}]
    /\ UNCHANGED << cfg, now, polled, schedVars, crashed, phase, live, pipeVars,
                    disk, remote, credit, outcome >>

NextStartup ==
    \/ ConstructAdapters
    \/ \E n \in EntryNames : VisitEntry(n)
    \/ StartScheduling
    \/ \E n \in EntryNames : ScheduleEntry(n)
    \/ StartTicking
    \/ \E n \in EntryNames : TickEntry(n)

SpecStartup == InitStartup /\ [][NextStartup]_vars

\* ------------------------------------------- version-control destination
\* One upload through Git, step by step: eval holds the operation, the
\* working directory of the process (cwd) and the one the call saved, the
\* step at which something goes wrong (fate), and the position reached.
GitOps ==
    { "upload_file", "upload_file_compressed", "upload_folder",
      "upload_folder_compressed" }

\* The steps of upload_file / upload_folder in order; "prepare" is what the
\* compressed operations do before they call upload_file.
GitSteps ==
    << "prepare", "clone", "mkdir", "copy", "getcwd", "chdir", "switch", "pull",
       "add", "commit", "push" >>

\* The git commands run inside the repository
GitCommands == { "switch", "pull", "add", "commit", "push" }

\* What can go wrong, and where: an Err of the step itself (io), a command
\* that cannot be spawned, a command that exits with a failure status.
GitFates ==
    { [at |-> "none", how |-> "none"] }
    \cup { [at |-> s, how |-> "io"] :
              s \in { "prepare", "clone", "mkdir", "copy", "getcwd", "chdir" } }
    \cup { [at |-> s, how |-> h] :
              s \in GitCommands \cup { "clone" }, h \in { "spawn", "status" } }

GitCalls ==
    { [op |-> "git", call |-> c, fate |-> f, start |-> d, cwd |-> d, saved |-> "unset",
       armed |-> FALSE, entered |-> FALSE, pc |-> 1, result |-> "none"] :
         c \in GitOps, f \in GitFates, d \in { "home", "elsewhere" } }

InitGit ==
    /\ cfg = [b \in Backups |-> [kind |-> "docker", compress |-> FALSE, keep |-> 0]]
    /\ Quiescent
    /\ eval \in GitCalls

GitAt(step) ==
    /\ eval.op = "git"
    /\ eval.result = "none"
    /\ eval.pc <= Len(GitSteps)
    /\ GitSteps[eval.pc] = step

FailsHere(how) == eval.fate.at = GitSteps[eval.pc] /\ eval.fate.how \in how

AtExitOnSuccessOnly(result) ==
    IF eval.armed /\ result = "ok" THEN eval.saved ELSE eval.cwd

\* defer! { set_current_dir(cwd) }: the guard runs when the scope is left,
\* by return, by `?` or by a panic, once it has been set up
AtExit(result) == IF eval.armed THEN eval.saved ELSE eval.cwd

\* The call is left with a result
GitLeave(result) == [eval EXCEPT !.result = result, !.cwd = AtExit(result)]

GitGoOn == [eval EXCEPT !.pc = @ + 1]

GitFrame ==
    UNCHANGED << cfg, now, polled, schedVars, crashed, phase, live, pipeVars,
                 disk, remote, credit, outcome >>

\* compress_file / compress_folder and the temporary file, for the
\* compressed operations; upload_file and upload_folder start at the clone
GitPrepare ==
    /\ GitAt("prepare")
    /\ eval' = IF eval.call \in { "upload_file", "upload_folder" } THEN GitGoOn
               ELSE IF FailsHere({ "io" }) THEN GitLeave("err")
               ELSE GitGoOn
    /\ GitFrame

\* clone_repository()?
GitClone ==
    /\ GitAt("clone")
    /\ eval' = IF FailsHere({ "io", "spawn", "status" }) THEN GitLeave("err")
               ELSE GitGoOn
    /\ GitFrame

\* create_dir_all(&dest).unwrap()
GitMkdir ==
    /\ GitAt("mkdir")
    /\ eval' = IF FailsHere({ "io" }) THEN GitLeave("panic") ELSE GitGoOn
    /\ GitFrame

\* std::fs::copy(..)?
GitCopy ==
    /\ GitAt("copy")
    /\ eval' = IF FailsHere({ "io" }) THEN GitLeave("err") ELSE GitGoOn
    /\ GitFrame

\* let cwd = std::env::current_dir()?; defer! { .. }
GitSaveCwd ==
    /\ GitAt("getcwd")
    /\ eval' = IF FailsHere({ "io" }) THEN GitLeave("err")
               ELSE [eval EXCEPT !.pc = @ + 1, !.saved = eval.cwd, !.armed = TRUE]
    /\ GitFrame

\* std::env::set_current_dir(&dest)?
GitChdir ==
    /\ GitAt("chdir")
    /\ eval' = IF FailsHere({ "io" }) THEN GitLeave("err")
               ELSE [eval EXCEPT !.pc = @ + 1, !.cwd = "repo", !.entered = TRUE]
    /\ GitFrame

\* Command::new(git).args(..).status()?: switch and pull ignore the exit
\* status, add, commit and push return Err on a failure status
GitCommand(cmd) ==
    /\ GitAt(cmd)
    /\ cmd \in GitCommands
    /\ eval' = IF FailsHere({ "spawn" }) THEN GitLeave("err")
               ELSE IF FailsHere({ "status" }) /\ cmd \in { "add", "commit", "push" }
               THEN GitLeave("err")
               ELSE IF cmd = "push" THEN GitLeave("ok")
               ELSE GitGoOn
    /\ GitFrame

NextGit ==
    \/ GitPrepare
    \/ GitClone
    \/ GitMkdir
    \/ GitCopy
    \/ GitSaveCwd
    \/ GitChdir
    \/ \E cmd \in GitCommands : GitCommand(cmd)

SpecGit == InitGit /\ [][NextGit]_vars

\* ---------------------------------------------------------- folder source
\* Folder::new examined as one call on a pattern, against a file system
\* that holds the directories / and /a and the regular files /a/f and /f;
\* the working directory of the process is /.
MaxPattern == 4

PatternChars == { "/", "a", "f", "*", "?", "[" }

Patterns == UNION { [1..n -> PatternChars] : n \in 0..MaxPattern }

\* for token in &["*", "?", "["]
Tokens == << "*", "?", "[" >>

HasChar(s, c) == \E i \in 1..Len(s) : s[i] = c

\* pattern.split(token).next().unwrap(): the text before the first token
BeforeFirst(s, c) ==
    SubSeq(s, 1, (CHOOSE i \in 1..Len(s) : s[i] = c /\ \A j \in 1..(i - 1) : s[j] # c) - 1)

\* The names between the separators of a path
RECURSIVE Components(_)
Components(s) ==
    IF s = <<>> THEN <<>>
    ELSE IF Head(s) = "/" THEN Components(Tail(s))
    ELSE IF HasChar(s, "/")
         THEN << BeforeFirst(s, "/") >>
                 \o Components(SubSeq(s, Len(BeforeFirst(s, "/")) + 1, Len(s)))
         ELSE << s >>

ExistingDirs == { <<>>, << <<"a">> >> }

ExistingFiles == { << <<"a">>, <<"f">> >>, << <<"f">> >> }

\* Path::is_absolute
IsAbsolute(s) == s # <<>> /\ Head(s) = "/"

\* fs::metadata(..).is_file(): relative paths resolve against the working
\* directory; a regular file followed by a separator is not found
IsFile(s) == s # <<>> /\ s[Len(s)] # "/" /\ Components(s) \in ExistingFiles

\* Path::exists
PathExists(s) == s # <<>> /\ (Components(s) \in ExistingDirs \/ IsFile(s))

FolderErr(kind) == [ok |-> FALSE, err |-> kind, pattern |-> <<>>]

FolderOk(pattern) == [ok |-> TRUE, err |-> "none", pattern |-> pattern]

\* PathBuf::join
JoinName(s, name) == IF s[Len(s)] = "/" THEN s \o name ELSE s \o << "/" >> \o name

\* The body of `if pattern.contains(token)`
WithToken(pattern, basePath) ==
    IF ~IsAbsolute(basePath) THEN FolderErr("IsNotAbsolute")
    ELSE IF ~PathExists(basePath) THEN FolderErr("DoesNotExist")
    ELSE FolderOk(pattern)

\* After the loop: a single file, or a folder turned into <folder>/**/*
WithoutToken(pattern) ==
    IF IsFile(pattern) THEN FolderOk(pattern)
    ELSE IF ~IsAbsolute(pattern) THEN FolderErr("IsNotAbsolute")
    ELSE IF ~PathExists(pattern) THEN FolderErr("DoesNotExist")
    ELSE FolderOk(JoinName(JoinName(pattern, << "*", "*" >>), << "*" >>))

\* Folder::new: the tokens are tried in the order *, ?, [ and the first one
\* the pattern contains decides
RECURSIVE FolderNewFrom(_, _)
FolderNewFrom(pattern, k) ==
    IF k > Len(Tokens) THEN WithoutToken(pattern)
    ELSE IF HasChar(pattern, Tokens[k])
         THEN WithToken(pattern, BeforeFirst(pattern, Tokens[k]))
         ELSE FolderNewFrom(pattern, k + 1)

FolderNew(pattern) == FolderNewFrom(pattern, 1)

InitFolder ==
    /\ cfg = [b \in Backups |-> [kind |-> "docker", compress |-> FALSE, keep |-> 0]]
    /\ Quiescent
    /\ eval \in { [op |-> "Folder::new", pattern |-> p, done |-> FALSE,
                   result |-> FolderErr("none")] : p \in Patterns }

FolderNewCall ==
    /\ eval.op = "Folder::new"
    /\ ~eval.done
    /\ eval' = [eval EXCEPT !.done = TRUE, !.result = FolderNew(eval.pattern)]
    /\ UNCHANGED << cfg, now, polled, schedVars, crashed, phase, live, pipeVars,
                    disk, remote, credit, outcome >>

NextFolder == FolderNewCall

SpecFolder == InitFolder /\ [][NextFolder]_vars

\* ------------------------------------------- backups sharing one source
\* The backups of the configuration all name the same database or container
\* source and are run by the scheduler loop of the daemon. eval holds, per
\* backup, whether a fire time is waiting (due), the position of its job
\* closure (pc), the directory its Dump handle points into (handle), what
\* list() resolved and found (listedIn, saw) and the directory the upload
\* saved (saved); and for the process its working directory (cwd) and, per
\* directory, the backup whose dump wrote <name>.dump there (0: no file).
MaxServed == 2

Directories == { "home", "repo" }

SharedInputs ==
    { [op |-> "shared", where |-> w, cwd |-> "home",
       due |-> [b \in Backups |-> FALSE], pc |-> [b \in Backups |-> "idle"],
       handle |-> [b \in Backups |-> "none"], listedIn |-> [b \in Backups |-> "none"],
       saw |-> [b \in Backups |-> 0], saved |-> [b \in Backups |-> "none"],
       served |-> [b \in Backups |-> 0], files |-> [d \in Directories |-> 0]] :
         w \in [Backups -> { "git", "aws" }] }

InitShared ==
    /\ cfg = [b \in Backups |-> [kind |-> "docker", compress |-> FALSE, keep |-> 0]]
    /\ Quiescent
    /\ eval \in SharedInputs

SharedFrame ==
    UNCHANGED << cfg, now, polled, schedVars, crashed, phase, live, pipeVars,
                 disk, remote, credit, outcome >>

\* A fire time of b passes
SharedFire(b) ==
    /\ eval.op = "shared"
    /\ ~eval.due[b]
    /\ eval.served[b] < MaxServed
    /\ eval' = [eval EXCEPT !.due[b] = TRUE]
    /\ SharedFrame

SharedMainThreadFreeSpawned(b) == eval.pc[b] = "idle"

\* scheduler.tick() runs the closures one after the other on the main
\* thread and returns to the loop when the last one has returned
SharedMainThreadFree(b) == \A o \in Backups : eval.pc[o] = "idle"

\* Job::tick runs the closure of b, which calls service.dump(): the path is
\* current_dir().join(<name>.dump); the process writes the file and the
\* handle keeps the path, or the call returns Err and the closure returns.
SharedDump(b) ==
    /\ eval.op = "shared"
    /\ eval.due[b]
    /\ SharedMainThreadFree(b)
    /\ \E ok \in BOOLEAN :
          eval' = IF ok
                  THEN [eval EXCEPT !.due[b] = FALSE, !.pc[b] = "dumped",
                                    !.handle[b] = eval.cwd, !.files[eval.cwd] = b]
                  ELSE [eval EXCEPT !.due[b] = FALSE, !.served[b] = @ + 1]
    /\ SharedFrame

\* service.list(): current_dir().join(<name>.dump), returned if it exists
SharedList(b) ==
    /\ eval.op = "shared"
    /\ eval.pc[b] = "dumped"
    /\ eval' = [eval EXCEPT !.pc[b] = "listed", !.listedIn[b] = eval.cwd,
                            !.saw[b] = eval.files[eval.cwd]]
    /\ SharedFrame

\* The upload call starts; Git::upload_file saves the working directory and
\* changes it to the repository, the other destinations leave it alone
SharedUploadStart(b) ==
    /\ eval.op = "shared"
    /\ eval.pc[b] = "listed"
    /\ eval' = [eval EXCEPT !.pc[b] = "uploading", !.saved[b] = eval.cwd,
                            !.cwd = IF eval.where[b] = "git" THEN "repo" ELSE @]
    /\ SharedFrame

SharedCwdLeftInRepo(b) == eval.cwd

\* defer! { set_current_dir(cwd) } of Git::upload_file
SharedCwdAtExit(b) == IF eval.where[b] = "git" THEN eval.saved[b] ELSE eval.cwd

\* The upload call returns
SharedUploadReturn(b) ==
    /\ eval.op = "shared"
    /\ eval.pc[b] = "uploading"
    /\ eval' = [eval EXCEPT !.pc[b] = "uploaded", !.cwd = SharedCwdAtExit(b)]
    /\ SharedFrame

\* The closure returns and the Dump handle is dropped: the file at its path
\* is removed if it exists
SharedEndTick(b) ==
    /\ eval.op = "shared"
    /\ eval.pc[b] = "uploaded"
    /\ eval' = [eval EXCEPT !.pc[b] = "idle", !.files[eval.handle[b]] = 0,
                            !.handle[b] = "none", !.listedIn[b] = "none",
                            !.saw[b] = 0, !.saved[b] = "none", !.served[b] = @ + 1]
    /\ SharedFrame

NextShared ==
    \/ \E b \in Backups : SharedFire(b)
    \/ \E b \in Backups : SharedDump(b)
    \/ \E b \in Backups : SharedList(b)
    \/ \E b \in Backups : SharedUploadStart(b)
    \/ \E b \in Backups : SharedUploadReturn(b)
    \/ \E b \in Backups : SharedEndTick(b)

SpecShared == InitShared /\ [][NextShared]_vars

\* ------------------------------------------------------------ properties
InFlight(b) == phase[b] \notin {"Idle", "Panicked"}

UploadOps ==
    {"upload_file", "upload_folder", "upload_file_compressed",
     "upload_folder_compressed"}

Positions == 1..Len(calls)

DumpFailedAt(i) == calls[i].op = "dump" /\ calls[i].res = "err"

\* A fire time of b has passed by at least one whole unit without being served.
Overdue(b) == lastTick[b] # -1 /\ NextEvent(b) < now

\* C1: within one tick dump returns before list starts and list returns
\* before any upload call; an upload is only made in a tick whose dump
\* succeeded.
C1_DumpThenListThenUpload ==
    \A i \in Positions :
       /\ calls[i].op = "dump" => i = 1
       /\ calls[i].op = "list" =>
             /\ i = 2
             /\ calls[1].op = "dump"
             /\ calls[1].res = "ok"
       /\ calls[i].op \in UploadOps =>
             /\ i > 2
             /\ calls[1].op = "dump"
             /\ calls[1].res = "ok"
             /\ calls[2].op = "list"

C1_Witness ==
    /\ Len(calls) >= 3
    /\ calls[3].op \in UploadOps

\* C2: after a tick of a backup whose source is a dumper, whatever its
\* outcome, the dump file of the source is no longer on disk.
C2_NoDumpFileAfterTick ==
    \A b \in Backups :
       (~InFlight(b) /\ cfg[b].kind # "folder") => b \notin disk

\* C3: at most one invocation of a backup's closure is in flight at any
\* instant, also when it outlasts the interval between two fire times.
C3_SingleFlight == \A b \in Backups : live[b] <= 1

C3_Witness ==
    \E b \in Backups :
       /\ live[b] = 1
       /\ \E t \in (tickNow[b] + 1)..now : FiresAt(b, t)

\* C4: after a tick that uploaded a compressed file for a backup with
\* keep_last = N, the destination directory holds at most N stamped
\* artifacts of the backup.
C4_RetentionBound ==
    \A b \in Backups :
       (phase[b] = "Idle" /\ cfg[b].keep > 0) =>
          Cardinality({ o \in Enumerate(b, RemotePrefix(b)) : o.ext = "gz" })
             <= cfg[b].keep

\* C5: a backup whose fire time has arrived is started although a tick of
\* another backup is still running.
C5_DueBackupNotDelayedByOther ==
    \A a \in Backups : \A b \in Backups \ {a} :
       (InFlight(a) /\ Overdue(b)) => InFlight(b)

\* C6: a fire that arrives while a tick of the same backup is in flight is
\* dropped, so a backup never starts more ticks than the fire times that
\* arrived while it was Idle.
C6_FiresInFlightAreDropped == \A b \in Backups : credit[b] >= 0

\* C7: when dump returns an error the tick ends there: dump is the only
\* adapter call of the tick (no list, no upload, no second dump), the
\* closure returns normally and the daemon keeps scheduling the backup.
C7_DumpErrorAbortsTick ==
    \A i \in Positions :
       DumpFailedAt(i) =>
          /\ Len(calls) = 1
          /\ phase[calls[i].b] = "Returning"
          /\ ~crashed

\* the next fire of a backup whose last tick failed in dump runs a full tick
C7_Witness ==
    /\ outcome.how = "dump_failed"
    /\ Len(calls) >= 3
    /\ calls[1].b = outcome.b
    /\ calls[3].op \in UploadOps
    /\ calls[3].res = "ok"

\* C8: when the dump subprocess cannot be spawned or exits with a non-zero
\* status, dump reports a failure and the tick makes no list or upload call.
C8_FailedSubprocessFailsDump ==
    \A b \in Backups :
       subproc[b] \in {"spawn_error", "exit_nonzero"} =>
          \A i \in Positions :
             calls[i].b = b =>
                /\ calls[i].op = "dump" => calls[i].res = "err"
                /\ calls[i].op \notin UploadOps

\* C9: when list returns an empty list the tick is a no-op success: it
\* makes no further call and completes without a panic.
C9_EmptyListIsNoOp ==
    \A i \in Positions :
       (calls[i].op = "list" /\ calls[i].res = "empty") =>
          /\ i = Len(calls)
          /\ ~crashed
          /\ phase[calls[i].b] # "Panicked"

\* C10: every step of a tick leads to a later state of the sequence or back
\* to Idle, and leaves the daemon able to run later ticks.
C10_EveryTickReturnsToIdle ==
    [][\A b \in Backups :
          (phase[b] # "Idle" /\ phase'[b] # phase[b]) =>
             /\ phase'[b] \in {"Dumping", "Listing", "Uploading", "Retaining",
                              "Returning", "Idle"}
             /\ ~crashed']_vars

\* ------------------------------------------- properties of the dispatch
\* The tick whose calls the log holds has listed a non-empty list.
Listed(b) ==
    /\ Len(calls) >= 2
    /\ calls[2].b = b
    /\ calls[2].op = "list"
    /\ calls[2].res = "ok"

\* The positions of the log that are upload calls
UploadPositions == { i \in Positions : calls[i].op \in UploadOps }

\* The loop over local_files is over (the closure is about to return).
LoopDone(b) ==
    /\ phase[b] = "Uploading"
    /\ ~folderCase[b]
    /\ localFiles[b] = <<>>

\* The common prefix of a listed list as the pipeline description defines
\* it, and whether every element lies under it.
CommonPrefix(l) == IF Len(l) > 1 THEN Parent(MinPath(l)) ELSE MinPath(l)

AllUnderCommonPrefix(l) == \A i \in 1..Len(l) : StartsWith(l[i], CommonPrefix(l))

\* C11: a non-empty list L is a single artifact iff |L| <= 1 or compress
\* holds and every element lies under the common prefix, and a
\* multi-artifact folder otherwise; the tick then makes exactly one upload
\* call: upload_folder(L, remote prefix) for a multi-artifact folder,
\* upload_folder_compressed for a single directory, upload_file_compressed
\* for a single file under compress, upload_file for a single file
\* otherwise.
C11_ClassifyAndDispatchOnce ==
    \A b \in Backups :
       Listed(b) =>
          LET L == calls[2].local
              c == cfg[b].compress
              single == Len(L) <= 1 \/ (c /\ AllUnderCommonPrefix(L))
              artifact == CommonPrefix(L)
          IN  /\ phase[b] # "Panicked"
              /\ Cardinality(UploadPositions) <= 1
              /\ LoopDone(b) => Cardinality(UploadPositions) = 1
              /\ \A i \in UploadPositions :
                    IF ~single
                    THEN /\ calls[i].op = "upload_folder"
                         /\ calls[i].local = L
                         /\ calls[i].rpath = RemotePrefix(b)
                    ELSE /\ calls[i].local = << artifact >>
                         /\ calls[i].op =
                               IF IsDir(artifact) THEN "upload_folder_compressed"
                               ELSE IF c THEN "upload_file_compressed"
                               ELSE "upload_file"

\* C12: under compress, a list of more than one element that all lie under
\* the common prefix is replaced by the root directory, and the tick calls
\* upload_folder_compressed exactly once, on that root: one archive for the
\* tree, never one per listed file or sub-folder.
C12_OneArchiveForTheTree ==
    \A b \in Backups :
       (/\ Listed(b)
        /\ cfg[b].compress
        /\ Len(calls[2].local) > 1
        /\ AllUnderCommonPrefix(calls[2].local)) =>
          /\ phase[b] # "Panicked"
          /\ phase[b] = "Uploading" => singleFile[b]
          /\ Cardinality(UploadPositions) <= 1
          /\ LoopDone(b) => Cardinality(UploadPositions) = 1
          /\ \A i \in UploadPositions :
                /\ calls[i].op = "upload_folder_compressed"
                /\ calls[i].local = << CommonPrefix(calls[2].local) >>
          /\ Cardinality({ o \in remote[b] : o.ext = "tar.gz" /\ o.stamp = now })
                <= 1

C12_Witness ==
    \E b \in Backups :
       /\ Listed(b)
       /\ cfg[b].compress
       /\ Len(calls[2].local) > 2
       /\ LoopDone(b)
       /\ calls[3].op = "upload_folder_compressed"
       /\ calls[3].res = "ok"
       /\ \E o \in remote[b] : o.ext = "tar.gz"

\* The archives on the destination of a folder backup with compress
FolderArchives(b) ==
    IF cfg[b].kind = "folder" /\ cfg[b].compress
    THEN { o \in remote[b] : o.ext = "tar.gz" }
    ELSE {}

CommonParent(l) == Parent(MinPath(l))

ShareAncestor(l) == \A i \in 1..Len(l) : StartsWith(l[i], CommonParent(l))

UploadFolderDone ==
    /\ eval.op = "upload_folder"
    /\ eval.done

\* C13: on every destination, upload_folder of a list of several paths
\* under one directory writes each regular file of the list to
\* remote_prefix joined with its path relative to the common parent, and
\* nothing outside remote_prefix (no transfer failing).
C13_UploadFolderKeepsRelativePaths ==
    (/\ UploadFolderDone
     /\ eval.fails = {}
     /\ Len(eval.paths) > 1
     /\ ShareAncestor(eval.paths)) =>
       /\ eval.result = "ok"
       /\ \A i \in 1..Len(eval.paths) :
             ~IsDir(eval.paths[i]) =>
                Join(eval.rpath, StripPrefix(eval.paths[i], CommonParent(eval.paths)))
                   \in eval.written
       /\ \A w \in eval.written : StartsWith(w, eval.rpath)

\* The stamp <YYYY-MM-DD-HH.MM> of the UTC minutes examined, written out
ExpectedStamp(t) ==
    CASE t = [Y |-> 2025, M |-> 1, D |-> 5, h |-> 4, m |-> 0] ->
            << "2", "0", "2", "5", "-", "0", "1", "-", "0", "5", "-",
               "0", "4", ".", "0", "0" >>
      [] t = [Y |-> 2025, M |-> 12, D |-> 31, h |-> 23, m |-> 59] ->
            << "2", "0", "2", "5", "-", "1", "2", "-", "3", "1", "-",
               "2", "3", ".", "5", "9" >>
      [] t = [Y |-> 2026, M |-> 11, D |-> 2, h |-> 9, m |-> 30] ->
            << "2", "0", "2", "6", "-", "1", "1", "-", "0", "2", "-",
               "0", "9", ".", "3", "0" >>

CompressedUploadDone ==
    /\ eval.op \in {"upload_file_compressed", "upload_folder_compressed"}
    /\ eval.done
    /\ eval.result = "ok"

\* C14: upload_file_compressed(local, remote) stores its artifact as the
\* file parent(remote)/<YYYY-MM-DD-HH.MM>-<basename(remote)>.gz, and
\* upload_folder_compressed as ...tar.gz, the stamp being the UTC minute of
\* the call with zero-padded fields; nothing is written at remote itself.
C14_StampedCompressedNames ==
    CompressedUploadDone =>
       eval.written =
          { Stored(Object(Parent(eval.rpath), FileName(eval.rpath),
                          ExpectedStamp(eval.t),
                          IF eval.op = "upload_file_compressed" THEN "gz"
                          ELSE "tar.gz"),
                   "file") }

\* ------------------------------------------------------ cadence claims
\* The decimal text of the numbers a well-formed cadence of Cadences names
Numeral(n) ==
    CASE n = 0 -> << "0" >>
      [] n = 1 -> << "1" >>
      [] n = 2 -> << "2" >>
      [] n = 3 -> << "3" >>
      [] n = 4 -> << "4" >>
      [] n = 5 -> << "5" >>
      [] n = 6 -> << "6" >>
      [] n = 7 -> << "7" >>
      [] n = 9 -> << "9" >>
      [] n = 15 -> << "1", "5" >>
      [] n = 23 -> << "2", "3" >>
      [] n = 30 -> << "3", "0" >>
      [] n = 31 -> << "3", "1" >>
      [] n = 59 -> << "5", "9" >>
      [] OTHER -> << "?" >>

ParsedCadence == eval.op = "parse_when" /\ eval.done

\* The cadence is a well-formed instance of its form
WellFormed(c) ==
    /\ c.kwGood
    /\ c.extra = <<>>
    /\ c.h \in 0..23
    /\ c.m \in 0..59
    /\ c.form = "monthly" => c.d \in 1..31
    /\ c.form = "weekly" => c.w \in 1..7

\* The cron line the cadence stands for: sec min hour dom mon dow year
CronLineOf(c) ==
    << "0" >> \o Blank \o Numeral(c.m) \o Blank \o Numeral(c.h) \o Blank
       \o (IF c.form = "monthly" THEN Numeral(c.d) ELSE Star) \o Blank
       \o Star \o Blank
       \o (IF c.form = "weekly" THEN Numeral(c.w) ELSE Star) \o Blank
       \o Star

\* C16: parse_when, whatever the case of the letters, maps daily HH:MM to
\* "0 MM HH * * * *", monthly D HH:MM to "0 MM HH D * * *" and
\* [weekly] <weekday> HH:MM (weekday in full or in three letters) to
\* "0 MM HH * * W *", W the ISO number of the weekday, for HH in 0..23,
\* MM in 0..59, D in 1..31; the form that accepts is the cadence's own.
C16_ParseWhenEmitsCronLine ==
    (ParsedCadence /\ WellFormed(eval.cadence))
        => /\ eval.result.ok
           /\ eval.result.text = CronLineOf(eval.cadence)
           /\ eval.result.by = eval.cadence.form

C16_Witness ==
    /\ ParsedCadence
    /\ WellFormed(eval.cadence)
    /\ eval.cadence.form = "weekly"
    /\ eval.cadence.w = 7
    /\ eval.cadence.text = << "W", "E", "E", "K", "L", "Y", " ", "S", "U", "N", " ", "0", "9", ":", "3", "0" >>
    /\ eval.result.text = << "0", " ", "3", "0", " ", "9", " ", "*", " ", "*", " ", "7", " ", "*" >>

\* Some character of the text is not a blank
NonBlank(s) == \E i \in 1..Len(s) : s[i] # " "

\* What makes a cadence one parse_when has to refuse
Defective(c) ==
    \/ c.h \notin 0..23
    \/ c.m \notin 0..59
    \/ c.form = "monthly" /\ c.d \notin 1..31
    \/ ~c.kwGood
    \/ c.form = "weekly" /\ c.w = 0
    \/ NonBlank(c.extra)

\* C17: parse_when returns an error for every input whose hour is outside
\* 0..23, whose minute is outside 0..59, whose monthly day is outside 1..31
\* or missing, whose keyword or weekday is misspelled, or that leaves
\* non-blank text once keyword, weekday or day, and HH:MM are removed.
C17_ParseWhenRejects ==
    (ParsedCadence /\ Defective(eval.cadence)) => ~eval.result.ok

\* A monthly cadence refused for its day alone
C17_Witness ==
    /\ ParsedCadence
    /\ ~eval.result.ok
    /\ eval.cadence.form = "monthly"
    /\ eval.cadence.d = 32
    /\ eval.cadence.kwGood
    /\ eval.cadence.extra = <<>>
    /\ eval.cadence.h = 23
    /\ eval.cadence.m = 30

UpcomingAsked == eval.op = "upcoming" /\ eval.done

\* The first instant after `at` at the cadence's hour and minute, on its day
\* of the month or on the weekday it names (Monday 1 .. Sunday 7)
TargetOf(c, at) ==
    Earliest({ x \in [day : at.day..LastDay, h : {c.h}, m : {c.m}] :
                  /\ Before(at, x)
                  /\ c.form = "monthly" => DayOfMonth(x.day) = c.d
                  /\ c.form = "weekly" => WeekdayOf(x.day) = c.w })

\* C18: the schedule built from an accepted cadence, asked at an instant
\* before a target occurrence (that hour and minute, on the given day of
\* the month or on the named weekday), fires next at that target.
C18_NextFireIsTheTarget ==
    (UpcomingAsked /\ eval.result.ok)
        => eval.result.fire = TargetOf(eval.cadence, eval.at)

BackupNewDone == eval.op = "new" /\ eval.done

\* One of the three forms accepts the cadence
FormAccepts(c) == c.form # "cron" /\ WellFormed(c)

\* The when string is itself a cron expression
RawIsCron(c) == c.form = "cron" /\ c.kwGood

\* C19: Backup::new hands the cron parser the line of the form that accepts
\* the when string and, only when no form does, the raw when string
\* unchanged; it succeeds iff a form accepts or the raw string is a cron
\* expression, and returns InvalidCronConfiguration otherwise.
C19_NewFallsBackToRawCron ==
    BackupNewDone
        => LET c == eval.cadence
               r == eval.result
           IN  /\ r.parsed = FormAccepts(c)
               /\ r.toParse = IF FormAccepts(c) THEN CronLineOf(c) ELSE c.text
               /\ r.ok = (FormAccepts(c) \/ RawIsCron(c))
               /\ ~r.ok => r.error = "InvalidCronConfiguration" /\ r.schedule = <<>>

\* A cron expression no form accepts was taken as it is
C19_Witness ==
    /\ BackupNewDone
    /\ RawIsCron(eval.cadence)
    /\ eval.result.ok
    /\ ~eval.result.parsed
    /\ eval.result.toParse = eval.cadence.text
    /\ Len(SplitFields(eval.cadence.text)) = 6

StartupOver == eval.op = "startup" /\ eval.pc \in { "exited", "panicked", "running" }

\* Some entry names a what or a where that was not constructed
MissingName ==
    /\ eval.op = "startup"
    /\ \E n \in EntryNames : \/ eval.entries[n].what \notin Services
                             \/ eval.entries[n].where \notin Remotes

\* The available names were logged for an entry naming a missing one
NamesLogged ==
    \E i \in 1..Len(eval.log) :
        LET l == eval.log[i]
            config == eval.entries[l.entry]
        IN  \/ l.invalid = "what" /\ config.what \notin Services /\ l.names = Services
            \/ l.invalid = "where" /\ config.where \notin Remotes /\ l.names = Remotes

\* C20: when a backup entry names a what that is no constructed source or a
\* where that is no constructed destination, startup ends with a non-zero
\* exit after the available names were logged, and no backup is registered
\* with the scheduler or run.
C20_MissingNameFailsStartup ==
    (MissingName /\ ~eval.adapterFails)
        => /\ eval.registered = {}
           /\ eval.ran = {}
           /\ eval.pc # "running"
           /\ StartupOver => eval.exit # 0 /\ NamesLogged

\* The entry names adapters that were constructed, and a cadence that parses
Sound(n) ==
    /\ eval.entries[n].what \in Services \ eval.failing
    /\ eval.entries[n].where \in Remotes \ eval.failing
    /\ BackupNew(eval.entries[n].when).ok

\* C21: when the construction of one adapter fails and every entry names
\* configured adapters, the daemon reaches its tick loop with every backup
\* registered whose source and destination were constructed, and with no
\* backup that references the failed adapter.
C21_FailedAdapterLeavesOthersScheduled ==
    (/\ eval.op = "startup"
     /\ eval.failing # {}
     /\ ~MissingName
     /\ StartupOver)
        => /\ eval.pc = "running"
           /\ \A n \in EntryNames : Sound(n) => n \in eval.registered
           /\ \A n \in EntryNames :
                 (eval.entries[n].what \in eval.failing
                     \/ eval.entries[n].where \in eval.failing)
                        => n \notin eval.registered

GitLeft == eval.op = "git" /\ eval.result # "none"

\* C22: an upload through the version-control destination leaves the working
\* directory of the process as it was when the call started, whether it
\* succeeds, fails in git add, commit or push, cannot spawn a command, or
\* ends before or after the directory was changed in any other way.
C22_GitRestoresWorkingDirectory == GitLeft => eval.cwd = eval.start

\* A call that failed in git push after it had entered the repository
C22_Witness ==
    /\ GitLeft
    /\ eval.entered
    /\ eval.result = "err"
    /\ eval.fate = [at |-> "push", how |-> "status"]
    /\ eval.start = "elsewhere"

FolderCompressedDone == eval.op = "upload_folder_compressed" /\ eval.done

\* C23: on every destination, upload_folder_compressed of a local path that
\* is not a directory returns NotADirectory and writes nothing.
C23_NonDirectoryIsRefused ==
    (FolderCompressedDone /\ ~IsDir(eval.paths[1]))
        => /\ eval.result = "NotADirectory"
           /\ eval.written = {}

\* The call was made with a regular file on the version-control destination,
\* with no transfer failing
C23_Witness ==
    /\ FolderCompressedDone
    /\ eval.paths[1] = <<1, 1>>
    /\ eval.variant = "git"
    /\ eval.fails = {}
    /\ eval.result = "NotADirectory"

\* An upload_folder call that returned, on a list whose elements all lie under
\* the prefix the destination computes
FolderDone ==
    /\ eval.op = "upload_folder"
    /\ eval.done
    /\ eval.result # "panic"
    /\ \A i \in 1..Len(eval.paths) : StartsWith(eval.paths[i], LocalPrefix(eval.paths))

\* The items of the list that are regular files
RegularItems == { i \in 1..Len(eval.paths) : ~IsDir(eval.paths[i]) }

\* The items whose own transfer fails: the copies and puts named by the
\* call, and on localhost a file that is its own prefix. An rsync transfers
\* the tree with one command and has no failure of one item.
FailedItems ==
    { i \in RegularItems :
         \/ i \in eval.fails /\ eval.variant # "ssh"
         \/ eval.variant = "localhost" /\ eval.paths[i] = LocalPrefix(eval.paths) }

\* Where the destination puts item i of the list
ItemTarget(i) ==
    CASE eval.variant \in { "localhost", "aws" } ->
            Join(eval.rpath, StripPrefix(eval.paths[i], LocalPrefix(eval.paths)))
      [] eval.variant = "git" -> Join(eval.rpath, << FileName(eval.paths[i]) >>)
      [] eval.variant = "ssh" ->
            Join(eval.rpath,
                 (IF LocalPrefix(eval.paths) = <<>> THEN <<>>
                  ELSE << FileName(LocalPrefix(eval.paths)) >>)
                    \o StripPrefix(eval.paths[i], LocalPrefix(eval.paths)))

\* C25: within one upload_folder call a failing item does not stop the
\* others: every regular file of the list whose own transfer does not fail is
\* written to the destination.
C25_FailedItemDoesNotStopTheOthers ==
    (FolderDone /\ ~(eval.variant = "ssh" /\ 0 \in eval.fails))
        => \A i \in RegularItems \ FailedItems : ItemTarget(i) \in eval.written

\* C29: when upload_folder returns success every regular file of the list has
\* been written, and when the transfer of a file failed it returns an error.
C29_FolderSuccessMeansAllWritten ==
    FolderDone
        => /\ eval.result = "ok"
                 => \A i \in RegularItems : ItemTarget(i) \in eval.written
           /\ FailedItems # {} => eval.result = "err"

\* C24: retention (the enumerate of the destination) is attempted only right
\* after a successful upload_file_compressed of a backup with keep_last set,
\* and an enumerate that fails is logged without aborting the tick.
C24_RetentionOnlyAfterSuccessfulUpload ==
    \A i \in Positions :
       calls[i].op = "enumerate" =>
          /\ cfg[calls[i].b].keep > 0
          /\ i > 1
          /\ calls[i - 1].op = "upload_file_compressed"
          /\ calls[i - 1].res = "ok"
          /\ calls[i].res = "err" => phase[calls[i].b] # "Panicked"

\* C27: when the list has more than one element and some element does not
\* lie under the parent of the smallest path, the tick does not panic and
\* uploads every element, those under that parent relative to it.
C27_ElementOutsidePrefixIsUploaded ==
    \A b \in Backups :
       (Listed(b) /\ Len(calls[2].local) > 1 /\ ~AllUnderCommonPrefix(calls[2].local))
          => /\ phase[b] # "Panicked"
             /\ LoopDone(b) =>
                   \A j \in 1..Len(calls[2].local) :
                      \E i \in UploadPositions :
                         /\ calls[i].local = << calls[2].local[j] >>
                         /\ StartsWith(calls[2].local[j], CommonPrefix(calls[2].local))
                               => calls[i].rpath =
                                     Join(RemotePrefix(b),
                                          StripPrefix(calls[2].local[j],
                                                      CommonPrefix(calls[2].local)))

\* The base of a pattern: the text before its first wildcard character, the
\* whole pattern when it has none
Wildcards(s) == { i \in 1..Len(s) : s[i] \in { "*", "?", "[" } }

GlobBase(s) ==
    IF Wildcards(s) = {} THEN s
    ELSE SubSeq(s, 1, (CHOOSE i \in Wildcards(s) : \A j \in Wildcards(s) : i <= j) - 1)

\* C26: Folder::new returns IsNotAbsolute when the base of the pattern is
\* relative, DoesNotExist when it is absolute and does not exist, and
\* succeeds otherwise, an existing folder without wildcard becoming
\* <folder>/**/* and any other pattern being kept.
C26_FolderNewValidatesBase ==
    (eval.op = "Folder::new" /\ eval.done)
        => IF ~IsAbsolute(GlobBase(eval.pattern))
           THEN eval.result = FolderErr("IsNotAbsolute")
           ELSE IF ~PathExists(GlobBase(eval.pattern))
           THEN eval.result = FolderErr("DoesNotExist")
           ELSE IF Wildcards(eval.pattern) = {} /\ ~IsFile(eval.pattern)
           THEN eval.result =
                   FolderOk(JoinName(JoinName(eval.pattern, << "*", "*" >>), << "*" >>))
           ELSE eval.result = FolderOk(eval.pattern)

\* The tick of b holds its Dump handle
Holding(b) == eval.op = "shared" /\ eval.handle[b] # "none"

C30_DumpAndListSeeTheOriginalDirectory ==
    eval.op = "shared" =>
       /\ eval.cwd = "repo" =>
             \E g \in Backups :
                /\ eval.pc[g] = "uploading"
                /\ eval.where[g] = "git"
                /\ \A o \in Backups \ {g} : eval.pc[o] = "idle"
       /\ \A b \in Backups :
             /\ eval.handle[b] \in { "none", "home" }
             /\ eval.listedIn[b] \in { "none", "home" }
             /\ eval.listedIn[b] # "none" => eval.listedIn[b] = eval.handle[b]

\* A tick dumps and lists after an earlier version-control upload of another
\* backup has changed and restored the working directory
C30_Witness ==
    \E a \in Backups : \E b \in Backups \ {a} :
       /\ eval.op = "shared"
       /\ eval.where[a] = "git"
       /\ eval.served[a] > 0
       /\ eval.pc[b] = "listed"
       /\ eval.listedIn[b] = "home"
       /\ eval.due[a]

====
